---- MODULE Spec2Model ----
(***************************************************************************)
(* Archbox: dependency resolution (repository/manager.rs), the install     *)
(* orchestration (repository/manager.rs, package/installer.rs) and the     *)
(* install command (cli/commands/install.rs); the remote binary and       *)
(* AppImage installers (package/installer.rs), the metadata cache         *)
(* (cache/mod.rs), the remove command (cli/commands/remove.rs), and the   *)
(* definition loader with the status refresh of Manager::new              *)
(* (package/definition.rs, repository/manager.rs).                        *)
(***************************************************************************)
EXTENDS Integers, Sequences, FiniteSets, TLC

VARIABLES
  packages,         \* DefinitionLoader.packages: name -> Package
  installed_cache,  \* Manager.installed_cache: name -> InstallStatus
  pc,               \* position of the running command
  requested,        \* InstallArgs.packages
  force,            \* InstallArgs.force
  result,           \* what resolve_packages returned
  idx,              \* execute: index of the package the install loop is at
  attempts,         \* execute: the outcome printed for each package so far
  last,             \* the latest install_package call of the command
  fs,               \* the file system: directories and files
  call,             \* the latest call of an operation of the system around the App
  index,            \* CacheManager: the in-memory index and ttl_hours
  disk,             \* the cache directory's index.json
  now,              \* chrono::Utc::now(), in half hours
  autoremove        \* RemoveArgs.autoremove

\* The state of the App and of the install command.
core == <<packages, installed_cache, pc, requested, force, result,
          idx, attempts, last>>
\* The state of the system around the App.
ext == <<fs, call, index, disk, now, autoremove>>

vars == <<packages, installed_cache, pc, requested, force, result,
          idx, attempts, last, fs, call, index, disk, now, autoremove>>

\* ------------------------------------------------------------------ bounds
Names == {"a", "b", "c"}
MaxEdges == 3     \* dependency entries in a whole definition set
MaxReq == 2       \* length of a requested-name sequence
MaxTime == 4      \* half hours the clock of the cache runs for
MaxAccess == 3    \* access_count a cache entry is read up to
MaxFiles == 2     \* definition files in a package directory
MaxCommands == 2  \* commands in a build or install command list
IntBits == 6      \* bits the 64-bit integers of the cache are modelled with

\* ------------------------------------------------------------------ data
DependencyType == {"System", "Package", "Runtime", "Build"}

Dependency(n, o, t) == [name |-> n, optional |-> o, dep_type |-> t]

Package(v, deps, inst, post) ==
  [version |-> v, description |-> "text", dependencies |-> deps,
   installation |-> inst, post_install |-> post]

Installation(m, pkgs) == [method |-> m, packages |-> pkgs]

\* Option<PostInstall>: present is FALSE for None.  config_files and
\* environment are maps; config_files is listed in the order the map is
\* iterated, environment is written in one step whatever it holds.
PostInstall(cmds, files, services, groups, env) ==
  [present |-> TRUE, commands |-> cmds, config_files |-> files,
   enable_services |-> services, user_groups |-> groups, environment |-> env]

NoPost ==
  [present |-> FALSE, commands |-> <<>>, config_files |-> <<>>,
   enable_services |-> <<>>, user_groups |-> <<>>, environment |-> FALSE]

\* InstallStatus
NotInstalled == [state |-> "NotInstalled", version |-> "", installed_at |-> ""]
Installed(v, at) == [state |-> "Installed", version |-> v, installed_at |-> at]
\* The variants of InstallStatus.
InstallStates == {"NotInstalled", "Installed", "UpdateAvailable", "Error"}

\* Error values (error.rs); NoError stands for the absence of an error.
NoError == [kind |-> "None", name |-> ""]
PackageNotFound(n) == [kind |-> "PackageNotFound", name |-> n]
DependencyError(n) == [kind |-> "Dependency", name |-> n]

Ok(list) == [ok |-> TRUE, list |-> list, err |-> NoError]
Err(e) == [ok |-> FALSE, list |-> <<>>, err |-> e]

SeqToSet(s) == {s[i] : i \in 1..Len(s)}
\* The orders in which a HashMap with the keys S can be iterated.
Orders(S) == {s \in [1..Cardinality(S) -> S] : SeqToSet(s) = S}

\* HashMap::remove and HashMap::insert
remove(entries, name) == [n \in DOMAIN entries \ {name} |-> entries[n]]
insert(entries, name, entry) ==
  [n \in DOMAIN entries \cup {name} |-> IF n = name THEN entry ELSE entries[n]]

\* ------------------------------------------------------------------ resolver
\* The traversal state of resolve_packages: the three collections it threads
\* through the recursion, and the error that `?` is propagating (if any).
ResolveState(resolved, visited, visiting, err) ==
  [resolved |-> resolved, visited |-> visited, visiting |-> visiting, err |-> err]

RECURSIVE resolve_package_recursive(_, _, _)
RECURSIVE resolve_dependencies(_, _, _, _)

\* resolve_dependencies without the `if dep.optional { continue }`.
resolve_dependencies_optional_followed(pk, deps, i, st) ==
  IF i > Len(deps) \/ st.err # NoError THEN st
  ELSE LET dep == deps[i] IN
       IF dep.dep_type = "Package"
       THEN resolve_dependencies(pk, deps, i + 1,
                                 resolve_package_recursive(pk, dep.name, st))
       ELSE resolve_dependencies(pk, deps, i + 1, st)

\* resolve_dependencies following a non-optional dependency of any kind.
resolve_dependencies_any_kind(pk, deps, i, st) ==
  IF i > Len(deps) \/ st.err # NoError THEN st
  ELSE LET dep == deps[i] IN
       IF dep.optional THEN resolve_dependencies(pk, deps, i + 1, st)
       ELSE resolve_dependencies(pk, deps, i + 1,
                                 resolve_package_recursive(pk, dep.name, st))

\* resolve_dependencies walking the dependency list from its end.
resolve_dependencies_last_first(pk, deps, i, st) ==
  IF i > Len(deps) \/ st.err # NoError THEN st
  ELSE LET dep == deps[Len(deps) + 1 - i] IN
       IF dep.optional THEN resolve_dependencies(pk, deps, i + 1, st)
       ELSE IF dep.dep_type = "Package"
            THEN resolve_dependencies(pk, deps, i + 1,
                                      resolve_package_recursive(pk, dep.name, st))
            ELSE resolve_dependencies(pk, deps, i + 1, st)

\* The `for dep in &package.dependencies` loop of resolve_package_recursive,
\* from index i on; an error returned by a recursive call ends the loop.
resolve_dependencies(pk, deps, i, st) ==
  IF i > Len(deps) \/ st.err # NoError THEN st
  ELSE LET dep == deps[i] IN
       IF dep.optional THEN resolve_dependencies(pk, deps, i + 1, st)
       ELSE IF dep.dep_type = "Package"
            THEN resolve_dependencies(pk, deps, i + 1,
                                      resolve_package_recursive(pk, dep.name, st))
            ELSE resolve_dependencies(pk, deps, i + 1, st)

\* resolve_package_recursive pushing the package before its dependencies.
resolve_package_recursive_push_first(pk, name, st) ==
  IF name \in st.visited THEN st
  ELSE IF name \in st.visiting THEN [st EXCEPT !.err = DependencyError(name)]
  ELSE IF name \notin DOMAIN pk THEN [st EXCEPT !.err = PackageNotFound(name)]
  ELSE LET s1 == [st EXCEPT !.visiting = @ \cup {name},
                            !.resolved = IF name \in SeqToSet(@) THEN @
                                         ELSE Append(@, name)]
           s2 == resolve_dependencies(pk, pk[name].dependencies, 1, s1)
       IN IF s2.err # NoError THEN s2
          ELSE [s2 EXCEPT !.visiting = @ \ {name}, !.visited = @ \cup {name}]

\* resolve_package_recursive taking a package on the current path for a
\* resolved one.
resolve_package_recursive_cycle_ignored(pk, name, st) ==
  IF name \in st.visited \/ name \in st.visiting THEN st
  ELSE IF name \notin DOMAIN pk THEN [st EXCEPT !.err = PackageNotFound(name)]
  ELSE LET s1 == [st EXCEPT !.visiting = @ \cup {name}]
           s2 == resolve_dependencies(pk, pk[name].dependencies, 1, s1)
       IN IF s2.err # NoError THEN s2
          ELSE [s2 EXCEPT !.visiting = @ \ {name},
                          !.visited = @ \cup {name},
                          !.resolved = IF name \in SeqToSet(@) THEN @
                                       ELSE Append(@, name)]

\* resolve_package_recursive skipping a name the store does not define.
resolve_package_recursive_missing_skipped(pk, name, st) ==
  IF name \in st.visited THEN st
  ELSE IF name \in st.visiting THEN [st EXCEPT !.err = DependencyError(name)]
  ELSE IF name \notin DOMAIN pk THEN st
  ELSE LET s1 == [st EXCEPT !.visiting = @ \cup {name}]
           s2 == resolve_dependencies(pk, pk[name].dependencies, 1, s1)
       IN IF s2.err # NoError THEN s2
          ELSE [s2 EXCEPT !.visiting = @ \ {name},
                          !.visited = @ \cup {name},
                          !.resolved = IF name \in SeqToSet(@) THEN @
                                       ELSE Append(@, name)]

resolve_package_recursive(pk, name, st) ==
  IF name \in st.visited THEN st
  ELSE IF name \in st.visiting THEN [st EXCEPT !.err = DependencyError(name)]
  ELSE IF name \notin DOMAIN pk THEN [st EXCEPT !.err = PackageNotFound(name)]
  ELSE LET s1 == [st EXCEPT !.visiting = @ \cup {name}]
           s2 == resolve_dependencies(pk, pk[name].dependencies, 1, s1)
       IN IF s2.err # NoError THEN s2
          ELSE [s2 EXCEPT !.visiting = @ \ {name},
                          !.visited = @ \cup {name},
                          !.resolved = IF name \in SeqToSet(@) THEN @
                                       ELSE Append(@, name)]

RECURSIVE resolve_names(_, _, _, _)
\* The `for name in package_names` loop of resolve_packages.
resolve_names(pk, names, i, st) ==
  IF i > Len(names) \/ st.err # NoError THEN st
  ELSE resolve_names(pk, names, i + 1, resolve_package_recursive(pk, names[i], st))

\* The traversal state when resolve_packages leaves its loop.
resolve_final(pk, names) ==
  resolve_names(pk, names, 1, ResolveState(<<>>, {}, {}, NoError))

resolve_packages(pk, names) ==
  LET st == resolve_final(pk, names)
  IN IF st.err # NoError THEN Err(st.err) ELSE Ok(st.resolved)

\* ------------------------------------------------------------------ installer
\* A step of an install_package run that reaches outside the process, and how
\* it ended: "ok", "nonzero" (the command ran and exited non-zero), "fail" (the
\* strategy returned an error) or "error" (an io::Error: the process could not
\* be spawned, the file could not be written).
Event(ev, arg, out) == [ev |-> ev, arg |-> arg, out |-> out]

\* A post-install action that is still to be run.
Action(ev, arg) == [ev |-> ev, arg |-> arg]

\* The record of one install_package call.
Call(name, f, before, ret, events) ==
  [called |-> TRUE, name |-> name, force |-> f, before |-> before,
   ret |-> ret, events |-> events]
NoCall ==
  [called |-> FALSE, name |-> "", force |-> FALSE, before |-> <<>>,
   ret |-> "", events |-> <<>>]

\* Package::get_dependencies: the entries of one kind, in definition order.
RECURSIVE get_dependencies(_, _)
get_dependencies(deps, dep_type) ==
  IF deps = <<>> THEN <<>>
  ELSE IF Head(deps).dep_type = dep_type
       THEN <<Head(deps)>> \o get_dependencies(Tail(deps), dep_type)
       ELSE get_dependencies(Tail(deps), dep_type)

DepNames(deps) == [i \in 1..Len(deps) |-> deps[i].name]

\* install_system_dependencies issuing one command per System entry.
install_system_dependencies_one_by_one(package, outcome) ==
  LET system_deps == DepNames(get_dependencies(package.dependencies, "System"))
  IN [ret |-> IF system_deps = <<>> \/ outcome = "ok" THEN "Ok"
              ELSE IF outcome = "nonzero" THEN "CommandFailed" ELSE "Io",
      events |-> [i \in 1..Len(system_deps) |->
                    Event("system_dependencies", <<system_deps[i]>>, outcome)]]

\* install_system_dependencies: no command when there is no System entry,
\* else one `pacman -S --needed --noconfirm <names>`; outcome is how that
\* command ended.
install_system_dependencies(package, outcome) ==
  LET system_deps == DepNames(get_dependencies(package.dependencies, "System"))
  IN IF system_deps = <<>> THEN [ret |-> "Ok", events |-> <<>>]
     ELSE [ret |-> CASE outcome = "ok" -> "Ok"
                     [] outcome = "nonzero" -> "CommandFailed"
                     [] OTHER -> "Io",
           events |-> <<Event("system_dependencies", system_deps, outcome)>>]

\* The actions of a PostInstall block in the order run_post_install takes them.
PostActions(post) ==
  [i \in 1..Len(post.commands) |-> Action("command", <<post.commands[i]>>)]
    \o [i \in 1..Len(post.config_files) |-> Action("config_file", <<post.config_files[i]>>)]
    \o [i \in 1..Len(post.enable_services) |-> Action("service", <<post.enable_services[i]>>)]
    \o [i \in 1..Len(post.user_groups) |-> Action("group", <<post.user_groups[i]>>)]
    \o (IF post.environment THEN <<Action("environment", <<>>)>> ELSE <<>>)

\* How a post-install action can end.
PostOutcomes(action) ==
  IF action.ev \in {"command", "service", "group"}
  THEN {"ok", "nonzero", "error"} ELSE {"ok", "error"}

RECURSIVE run_post_actions(_, _, _)
\* run_post_install from action i on: a non-zero exit is logged (warn!), an
\* io::Error is returned by `?`.
run_post_actions(actions, outcomes, i) ==
  IF i > Len(actions) THEN [ret |-> "Ok", events |-> <<>>]
  ELSE LET done == Event(actions[i].ev, actions[i].arg, outcomes[i])
       IN IF outcomes[i] = "error"
          THEN [ret |-> "Io", events |-> <<done>>]
          ELSE LET rest == run_post_actions(actions, outcomes, i + 1)
               IN [ret |-> rest.ret, events |-> <<done>> \o rest.events]

run_post_install(post, outcomes) == run_post_actions(PostActions(post), outcomes, 1)

\* Installer::install: the strategy of the installation method, then the
\* post-install block if there is one.
Installer_install(package, env) ==
  LET dispatched == <<Event("strategy", <<package.installation.method>>, env.strategy)>>
  IN IF env.strategy # "ok"
     THEN [ret |-> "InstallationFailed", events |-> dispatched]
     ELSE IF package.post_install.present
          THEN LET r == run_post_install(package.post_install, env.post)
               IN [ret |-> r.ret, events |-> dispatched \o r.events]
          ELSE [ret |-> "Ok", events |-> dispatched]

\* The status map after a successful install of `name`.
StatusRecorded(cache, name, package) ==
  [n \in DOMAIN cache \cup {name} |->
     IF n = name THEN Installed(package.version, "now") ELSE cache[n]]

\* install_package without `if !force`: an Installed package is never redone.
install_package_force_ignored(cache, name, package, f, env) ==
  IF name \in DOMAIN cache /\ cache[name].state = "Installed"
  THEN [cache |-> cache, ret |-> "Ok", events |-> <<>>]
  ELSE LET sys == install_system_dependencies(package, env.sysdeps)
       IN IF sys.ret # "Ok"
          THEN [cache |-> cache, ret |-> sys.ret, events |-> sys.events]
          ELSE LET ins == Installer_install(package, env)
               IN IF ins.ret # "Ok"
                  THEN [cache |-> cache, ret |-> ins.ret,
                        events |-> sys.events \o ins.events]
                  ELSE [cache |-> StatusRecorded(cache, name, package),
                        ret |-> "Ok",
                        events |-> sys.events \o ins.events]

\* install_package without the `?` on install_system_dependencies.
install_package_sysdeps_unchecked(cache, name, package, f, env) ==
  IF ~f /\ name \in DOMAIN cache /\ cache[name].state = "Installed"
  THEN [cache |-> cache, ret |-> "Ok", events |-> <<>>]
  ELSE LET sys == install_system_dependencies(package, env.sysdeps)
           ins == Installer_install(package, env)
       IN IF ins.ret # "Ok"
          THEN [cache |-> cache, ret |-> ins.ret, events |-> sys.events \o ins.events]
          ELSE [cache |-> StatusRecorded(cache, name, package),
                ret |-> "Ok",
                events |-> sys.events \o ins.events]

\* install_package recording the status before the installer has returned.
install_package_recorded_early(cache, name, package, f, env) ==
  IF ~f /\ name \in DOMAIN cache /\ cache[name].state = "Installed"
  THEN [cache |-> cache, ret |-> "Ok", events |-> <<>>]
  ELSE LET sys == install_system_dependencies(package, env.sysdeps)
       IN IF sys.ret # "Ok"
          THEN [cache |-> cache, ret |-> sys.ret, events |-> sys.events]
          ELSE LET ins == Installer_install(package, env)
               IN [cache |-> StatusRecorded(cache, name, package),
                   ret |-> ins.ret,
                   events |-> sys.events \o ins.events]

\* install_package dispatching the strategy before the system dependencies
\* are installed.
install_package_strategy_first(cache, name, package, f, env) ==
  IF ~f /\ name \in DOMAIN cache /\ cache[name].state = "Installed"
  THEN [cache |-> cache, ret |-> "Ok", events |-> <<>>]
  ELSE LET ins == Installer_install(package, env)
       IN IF ins.ret # "Ok"
          THEN [cache |-> cache, ret |-> ins.ret, events |-> ins.events]
          ELSE LET sys == install_system_dependencies(package, env.sysdeps)
               IN IF sys.ret # "Ok"
                  THEN [cache |-> cache, ret |-> sys.ret,
                        events |-> ins.events \o sys.events]
                  ELSE [cache |-> StatusRecorded(cache, name, package),
                        ret |-> "Ok",
                        events |-> ins.events \o sys.events]

\* install_package recording the status it found instead of the new one.
install_package_status_kept(cache, name, package, f, env) ==
  IF ~f /\ name \in DOMAIN cache /\ cache[name].state = "Installed"
  THEN [cache |-> cache, ret |-> "Ok", events |-> <<>>]
  ELSE LET sys == install_system_dependencies(package, env.sysdeps)
       IN IF sys.ret # "Ok"
          THEN [cache |-> cache, ret |-> sys.ret, events |-> sys.events]
          ELSE LET ins == Installer_install(package, env)
               IN [cache |-> cache, ret |-> ins.ret,
                   events |-> sys.events \o ins.events]

\* Manager::install_package on the status map `cache`; env says how each
\* external step ends.
install_package(cache, name, package, f, env) ==
  IF ~f /\ name \in DOMAIN cache /\ cache[name].state = "Installed"
  THEN [cache |-> cache, ret |-> "Ok", events |-> <<>>]
  ELSE LET sys == install_system_dependencies(package, env.sysdeps)
       IN IF sys.ret # "Ok"
          THEN [cache |-> cache, ret |-> sys.ret, events |-> sys.events]
          ELSE LET ins == Installer_install(package, env)
               IN IF ins.ret # "Ok"
                  THEN [cache |-> cache, ret |-> ins.ret,
                        events |-> sys.events \o ins.events]
                  ELSE [cache |-> StatusRecorded(cache, name, package),
                        ret |-> "Ok",
                        events |-> sys.events \o ins.events]

is_installed(cache, name) == name \in DOMAIN cache /\ cache[name].state = "Installed"

AllOk(n) == [i \in 1..n |-> "ok"]

RECURSIVE PostOutcomeSeqs(_, _)
\* How the actions from i on can end, one outcome per action; the actions
\* behind an io::Error are given "ok".
PostOutcomeSeqs(actions, i) ==
  IF i > Len(actions) THEN {<<>>}
  ELSE {<<"error">> \o AllOk(Len(actions) - i)}
         \cup {<<x>> \o rest : x \in PostOutcomes(actions[i]) \ {"error"},
                              rest \in PostOutcomeSeqs(actions, i + 1)}

\* How the external steps of one install_package(package) call can end; the
\* steps behind a failed step are given "ok".
Environments(package) ==
  LET actions == PostActions(package.post_install)
      all == {[sysdeps |-> s, strategy |-> t, post |-> o] :
                s \in {"ok", "nonzero", "error"},
                t \in {"ok", "fail"},
                o \in PostOutcomeSeqs(actions, 1)}
  IN {e \in all : /\ e.sysdeps # "ok" => e.strategy = "ok"
                  /\ (e.sysdeps # "ok" \/ e.strategy # "ok") => e.post = AllOk(Len(actions))}

\* ------------------------------------------------------------------ status refresh
\* What `pacman -Q <pkg>` ends with: the process cannot be spawned, it exits
\* non-zero (the package is not installed), or it prints the name and the
\* version.
SpawnError == [spawned |-> FALSE, success |-> FALSE, stdout |-> <<>>]
NotFound == [spawned |-> TRUE, success |-> FALSE, stdout |-> <<>>]
Found(v) == [spawned |-> TRUE, success |-> TRUE, stdout |-> <<"name", v>>]

\* version_info.split_whitespace().nth(1).unwrap_or("unknown")
version_of(stdout) == IF Len(stdout) >= 2 THEN stdout[2] ELSE "unknown"

RECURSIVE query_first_last_match(_, _, _, _)
\* The probe loop going on after a match and keeping the last one.
query_first_last_match(pkgs, db, i, probes) ==
  IF i > Len(pkgs) THEN [ret |-> "Ok", status |-> NotInstalled, probes |-> probes]
  ELSE LET output == db[pkgs[i]]
           probed == Append(probes, pkgs[i])
           rest == query_first_last_match(pkgs, db, i + 1, probed)
       IN IF ~output.spawned
          THEN [ret |-> "Io", status |-> NotInstalled, probes |-> probed]
          ELSE IF output.success /\ rest.ret = "Ok" /\ rest.status = NotInstalled
          THEN [rest EXCEPT !.status = Installed(version_of(output.stdout), "unknown")]
          ELSE rest

RECURSIVE query_first(_, _, _, _)
\* The probe loop of check_package_status over the candidate names from i on;
\* db maps each native package name to what `pacman -Q` ends with.
query_first(pkgs, db, i, probes) ==
  IF i > Len(pkgs) THEN [ret |-> "Ok", status |-> NotInstalled, probes |-> probes]
  ELSE LET output == db[pkgs[i]]
           probed == Append(probes, pkgs[i])
       IN IF ~output.spawned
          THEN [ret |-> "Io", status |-> NotInstalled, probes |-> probed]
          ELSE IF output.success
          THEN [ret |-> "Ok", status |-> Installed(version_of(output.stdout), "unknown"),
                probes |-> probed]
          ELSE query_first(pkgs, db, i + 1, probed)

check_package_status(package, db) ==
  IF package.installation.method = "Pacman"
  THEN query_first(package.installation.packages, db, 1, <<>>)
  ELSE [ret |-> "Ok", status |-> NotInstalled, probes |-> <<>>]

RECURSIVE refresh_from(_, _, _, _, _, _)
\* The loop of refresh_installed_cache from the i-th definition of the
\* iteration order on; the first failing probe ends it.
refresh_from(pk, db, order, i, cache, probes) ==
  IF i > Len(order) THEN [ret |-> "Ok", cache |-> cache, probes |-> probes]
  ELSE LET r == check_package_status(pk[order[i]], db)
       IN IF r.ret # "Ok"
          THEN [ret |-> r.ret, cache |-> cache,
                probes |-> insert(probes, order[i], r.probes)]
          ELSE refresh_from(pk, db, order, i + 1,
                            insert(cache, order[i], r.status),
                            insert(probes, order[i], r.probes))

\* refresh_installed_cache on an empty status map, the definitions iterated
\* in `order`.
refresh_installed_cache(pk, db, order) ==
  refresh_from(pk, db, order, 1, [n \in {} |-> NotInstalled], [n \in {} |-> <<>>])

\* ------------------------------------------------------------------ definition files
\* A definition file: a single package (with its name), a map from names to
\* packages (defs in the order the parsed HashMap is iterated), text that is
\* neither, or a file that cannot be read.
Definition(name, package) == [name |-> name, package |-> package]
SingleFile(name, package) == [kind |-> "package", defs |-> <<Definition(name, package)>>]
MapFile(defs) == [kind |-> "map", defs |-> defs]
MalformedFile == [kind |-> "malformed", defs |-> <<>>]
UnreadableFile == [kind |-> "unreadable", defs |-> <<>>]

\* validate_installation, for the fields of an Installation the model keeps.
validate_installation(installation) ==
  installation.method = "Pacman" => installation.packages # <<>>

\* DefinitionLoader::validate_package
validate_package(name, package) ==
  /\ name # ""
  /\ package.version # ""
  /\ package.description # ""
  /\ validate_installation(package.installation)
  /\ \A i \in 1..Len(package.dependencies) : package.dependencies[i].name # ""

RECURSIVE insert_validated(_, _, _)
\* The insertion loop of load_definition_file over the definitions from i on:
\* the first one that fails validation ends it.
insert_validated(pk, defs, i) ==
  IF i > Len(defs) THEN [packages |-> pk, ret |-> "Ok"]
  ELSE IF ~validate_package(defs[i].name, defs[i].package)
  THEN [packages |-> pk, ret |-> "Config"]
  ELSE insert_validated(insert(pk, defs[i].name, defs[i].package), defs, i + 1)

\* DefinitionLoader::load_definition_file
load_definition_file(pk, file) ==
  CASE file.kind = "unreadable" -> [packages |-> pk, ret |-> "Io"]
    [] file.kind \in {"package", "map"} -> insert_validated(pk, file.defs, 1)
    [] OTHER -> [packages |-> pk, ret |-> "Config"]

RECURSIVE load_files(_, _, _)
\* The loop of load_from_directory over the files from the i-th one of the
\* walk on.
load_files(pk, files, i) ==
  IF i > Len(files) THEN [packages |-> pk, ret |-> "Ok"]
  ELSE LET r == load_definition_file(pk, files[i])
       IN IF r.ret # "Ok" THEN r ELSE load_files(r.packages, files, i + 1)

\* DefinitionLoader::load_from_directory on an existing directory whose walk
\* yields `files`.
load_from_directory(pk, files) == load_files(pk, files, 1)

\* ------------------------------------------------------------------ file system
\* Option<T>
None == [some |-> FALSE, value |-> ""]
Some(v) == [some |-> TRUE, value |-> v]

\* A path holds no file, or a file with its bytes and permission bits.
Absent == [exists |-> FALSE, content |-> "", mode |-> ""]
File(c, m) == [exists |-> TRUE, content |-> c, mode |-> m]

\* The install_path of the Binary definition and the path install_appimage
\* builds for the package named c.
InstallPath == "/opt/tools/tool"
AppImageDir == "~/.local/share/applications"
AppImagePath(name) == "~/.local/share/applications/c.AppImage"
Paths == {InstallPath, AppImagePath("c")}
\* Path::parent
Parent(path) == IF path = InstallPath THEN "/opt/tools" ELSE AppImageDir
Dirs == {Parent(p) : p \in Paths}

FileSystem(dirs, files) == [dirs |-> dirs, files |-> files]
NoFiles == FileSystem({}, [p \in {} |-> Absent])

\* The latest call of an operation: what it was given, what it returned (the
\* variant and the value it carries) and the steps it took.
NoArgs == [none |-> TRUE]
NoValue == [none |-> TRUE]
OpCall(op, args, ret, value, events) ==
  [op |-> op, args |-> args, ret |-> ret, value |-> value, events |-> events]
NoOp == OpCall("", NoArgs, "", NoValue, <<>>)

\* ------------------------------------------------------------------ metadata cache
\* The part of a cached Package the cache is checked on.
CachedPackage(n, v) == [name |-> n, version |-> v]
CacheEntry(package, cached_at, access_count, last_accessed) ==
  [package |-> package, cached_at |-> cached_at,
   access_count |-> access_count, last_accessed |-> last_accessed]
NoEntries == [n \in {} |-> CacheEntry(CachedPackage("", ""), 0, 0, 0)]

\* A CacheManager, and the absence of one.
CacheManager(entries, ttl_hours) ==
  [open |-> TRUE, entries |-> entries, ttl_hours |-> ttl_hours]
Closed == [open |-> FALSE, entries |-> NoEntries, ttl_hours |-> 0]

\* index.json: missing, unparseable, or a serialized CacheIndex.
NoFile == [state |-> "missing", entries |-> NoEntries]
Corrupt == [state |-> "unparseable", entries |-> NoEntries]
\* serde_json::to_string_pretty(&self.index)
to_string_pretty(entries) == [state |-> "index", entries |-> entries]
\* serde_json::from_str(&content).unwrap_or_else(|_| CacheIndex::new())
from_str(content) == IF content.state = "index" THEN content.entries ELSE NoEntries

\* u64::MAX, and the cast `as i64` of a u64: the value with the same bits in
\* two's complement. The 64-bit types are modelled IntBits wide; the ages the
\* clock reaches are far below the largest signed value at either width.
u64_MAX == 2^IntBits - 1
as_i64(v) == IF v >= 2^(IntBits - 1) THEN v - 2^IntBits ELSE v

\* Duration::num_hours of a duration given in half hours.
num_hours(age) == IF age >= 0 THEN age \div 2 ELSE -((-age) \div 2)

\* save_index: fs::write of the whole serialized index over index.json, on a
\* cache directory that can be written.
save_index(m, d) == [disk |-> to_string_pretty(m.entries), ret |-> "Ok"]

\* get_package whose hit also sets cached_at.
get_package_hit_refreshes(m, name, t) ==
  IF name \in DOMAIN m.entries
  THEN LET entry == m.entries[name]
           age == t - entry.cached_at
       IN IF num_hours(age) < as_i64(m.ttl_hours)
          THEN [index |-> [m EXCEPT !.entries[name] =
                             CacheEntry(entry.package, t, entry.access_count + 1, t)],
                ret |-> Some(entry.package), events |-> <<"hit">>]
          ELSE [index |-> [m EXCEPT !.entries = remove(m.entries, name)], ret |-> None,
                events |-> <<"expired", "miss">>]
  ELSE [index |-> m, ret |-> None, events |-> <<"miss">>]

\* get_package returning an entry whatever its age.
get_package_no_expiry(m, name, t) ==
  IF name \in DOMAIN m.entries
  THEN LET entry == m.entries[name]
       IN [index |-> [m EXCEPT !.entries[name].access_count = entry.access_count + 1,
                               !.entries[name].last_accessed = t],
           ret |-> Some(entry.package), events |-> <<"hit">>]
  ELSE [index |-> m, ret |-> None, events |-> <<"miss">>]

\* CacheManager::get_package at time t; the events are its debug lines.
get_package(m, name, t) ==
  IF name \in DOMAIN m.entries
  THEN LET entry == m.entries[name]
           age == t - entry.cached_at
       IN IF num_hours(age) < as_i64(m.ttl_hours)
          THEN [index |-> [m EXCEPT !.entries[name].access_count = entry.access_count + 1,
                                    !.entries[name].last_accessed = t],
                ret |-> Some(entry.package), events |-> <<"hit">>]
          ELSE [index |-> [m EXCEPT !.entries = remove(m.entries, name)], ret |-> None,
                events |-> <<"expired", "miss">>]
  ELSE [index |-> m, ret |-> None, events |-> <<"miss">>]

\* store_package keeping the times and the count of an entry it finds.
store_package_entry_kept(m, d, package, t) ==
  LET found == package.name \in DOMAIN m.entries
      entry == IF found THEN [m.entries[package.name] EXCEPT !.package = package]
               ELSE CacheEntry(package, t, 1, t)
      m1 == [m EXCEPT !.entries = insert(m.entries, package.name, entry)]
      w == save_index(m1, d)
  IN [index |-> m1, disk |-> w.disk, ret |-> w.ret, replaced |-> found]

\* CacheManager::store_package at time t; replaced says whether the insert
\* found (and dropped) an entry under the name.
store_package(m, d, package, t) ==
  LET m1 == [m EXCEPT !.entries = insert(m.entries, package.name,
                                         CacheEntry(package, t, 1, t))]
      w == save_index(m1, d)
  IN [index |-> m1, disk |-> w.disk, ret |-> w.ret,
      replaced |-> package.name \in DOMAIN m.entries]

\* CacheManager::invalidate
invalidate(m, d, name) ==
  LET m1 == [m EXCEPT !.entries = remove(m.entries, name)]
      w == save_index(m1, d)
  IN [index |-> m1, disk |-> w.disk, ret |-> w.ret]

\* CacheManager::clear (index.json is the only file of the cache directory)
clear(m, d) ==
  LET m1 == [m EXCEPT !.entries = NoEntries]
      w == save_index(m1, d)
  IN [index |-> m1, disk |-> w.disk, ret |-> w.ret]

\* CacheManager::cleanup_expired at time t
cleanup_expired(m, d, t) ==
  LET to_remove == {n \in DOMAIN m.entries :
                      num_hours(t - m.entries[n].cached_at) >= as_i64(m.ttl_hours)}
      m1 == [m EXCEPT !.entries = [n \in DOMAIN m.entries \ to_remove |-> m.entries[n]]]
  IN IF DOMAIN m1.entries # {}
     THEN LET w == save_index(m1, d)
          IN [index |-> m1, disk |-> w.disk, ret |-> w.ret]
     ELSE [index |-> m1, disk |-> d, ret |-> "Ok"]

\* CacheManager::new at time t: no manager is returned when the sweep fails.
CacheManager_new(d, ttl_hours, t) ==
  LET r == cleanup_expired(CacheManager(from_str(d), ttl_hours), d, t)
  IN IF r.ret = "Ok" THEN r ELSE [r EXCEPT !.index = Closed]

RECURSIVE sum_access_count(_, _)
sum_access_count(entries, names) ==
  IF names = {} THEN 0
  ELSE LET n == CHOOSE x \in names : TRUE
       IN entries[n].access_count + sum_access_count(entries, names \ {n})

\* CacheManager::get_statistics
get_statistics(m) ==
  [total_entries |-> Cardinality(DOMAIN m.entries),
   total_access_count |-> sum_access_count(m.entries, DOMAIN m.entries)]

ExtIdle ==
  /\ fs = NoFiles /\ call = NoOp
  /\ index = Closed /\ disk = NoFile /\ now = 0
  /\ autoremove = FALSE

\* ------------------------------------------------------------------ remote binaries
\* What the GET ends with: an error sending the request, or a response with a
\* status and a body (whose bytes may fail to arrive).
Response(sent, status, body, read) ==
  [sent |-> sent, status |-> status, body |-> body, read |-> read]
\* StatusCode::is_success
is_success(status) == status >= 200 /\ status < 300

\* calculate_sha256: the lower-case hex digest of the bytes.
calculate_sha256(data) ==
  CASE data = "x" -> "2d71" [] data = "y" -> "a1fc" [] OTHER -> "e3b0"

\* install_binary writing the bytes before it verifies them.
install_binary_verify_after_write(f, resp, checksum, install_path, executable, io) ==
  IF ~resp.sent THEN [fs |-> f, ret |-> "Network", events |-> <<>>]
  ELSE IF ~is_success(resp.status) THEN [fs |-> f, ret |-> "Network", events |-> <<>>]
  ELSE IF ~resp.read THEN [fs |-> f, ret |-> "Network", events |-> <<>>]
  ELSE LET old == f.files[install_path]
           written == File(resp.body, IF old.exists THEN old.mode ELSE "644")
           f1 == FileSystem(f.dirs \cup {Parent(install_path)},
                            [f.files EXCEPT ![install_path] = written])
       IN IF checksum.some /\ calculate_sha256(resp.body) # checksum.value
          THEN [fs |-> f1, ret |-> "InstallationFailed",
                events |-> <<"create_dir_all", "write">>]
          ELSE [fs |-> f1, ret |-> "Ok", events |-> <<"create_dir_all", "write">>]

\* Installer::install_binary on the file system f; resp is what the download
\* ends with and io how each file operation ends.
install_binary(f, resp, checksum, install_path, executable, io) ==
  IF ~resp.sent THEN [fs |-> f, ret |-> "Network", events |-> <<>>]
  ELSE IF ~is_success(resp.status) THEN [fs |-> f, ret |-> "Network", events |-> <<>>]
  ELSE IF ~resp.read THEN [fs |-> f, ret |-> "Network", events |-> <<>>]
  ELSE IF checksum.some /\ calculate_sha256(resp.body) # checksum.value
  THEN [fs |-> f, ret |-> "InstallationFailed", events |-> <<>>]
  ELSE IF io.mkdir # "ok" THEN [fs |-> f, ret |-> "Io", events |-> <<"create_dir_all">>]
  ELSE LET dirs == f.dirs \cup {Parent(install_path)}
           old == f.files[install_path]
           written == File(resp.body, IF old.exists THEN old.mode ELSE "644")
       IN IF io.write = "not_opened"
          THEN [fs |-> FileSystem(dirs, f.files), ret |-> "Io",
                events |-> <<"create_dir_all", "write">>]
          ELSE IF io.write = "truncated"
          THEN [fs |-> FileSystem(dirs, [f.files EXCEPT
                                           ![install_path] = [written EXCEPT !.content = ""]]),
                ret |-> "Io", events |-> <<"create_dir_all", "write">>]
          ELSE IF ~executable
          THEN [fs |-> FileSystem(dirs, [f.files EXCEPT ![install_path] = written]),
                ret |-> "Ok", events |-> <<"create_dir_all", "write">>]
          ELSE IF io.chmod # "ok"
          THEN [fs |-> FileSystem(dirs, [f.files EXCEPT ![install_path] = written]),
                ret |-> "Io", events |-> <<"create_dir_all", "write", "set_permissions">>]
          ELSE [fs |-> FileSystem(dirs, [f.files EXCEPT
                                           ![install_path] = [written EXCEPT !.mode = "755"]]),
                ret |-> "Ok", events |-> <<"create_dir_all", "write", "set_permissions">>]

\* Installer::install_appimage for the package `name`: the applications
\* directory is created first, then the download goes through install_binary.
install_appimage(f, resp, checksum, integrate, name, io) ==
  IF io.appdir # "ok" THEN [fs |-> f, ret |-> "Io", events |-> <<"create_dir_all">>]
  ELSE LET f1 == FileSystem(f.dirs \cup {AppImageDir}, f.files)
           r == install_binary(f1, resp, checksum, AppImagePath(name), TRUE, io)
       IN IF r.ret # "Ok"
          THEN [r EXCEPT !.events = <<"create_dir_all">> \o r.events]
          ELSE [r EXCEPT !.events = <<"create_dir_all">> \o r.events
                                      \o (IF integrate THEN <<"extract">> ELSE <<>>)]

\* The downloads and the file-operation outcomes the installs are checked on.
Responses ==
  {Response(FALSE, 0, "", FALSE), Response(TRUE, 304, "", TRUE),
   Response(TRUE, 404, "x", TRUE), Response(TRUE, 200, "x", TRUE),
   Response(TRUE, 200, "x", FALSE), Response(TRUE, 204, "y", TRUE)}
Checksums == {None, Some("2d71"), Some("2D71")}
\* Every file operation succeeds, or one of them fails.
IoOk == [appdir |-> "ok", mkdir |-> "ok", write |-> "ok", chmod |-> "ok"]
IoOutcomes ==
  {IoOk, [IoOk EXCEPT !.appdir = "error"], [IoOk EXCEPT !.mkdir = "error"],
   [IoOk EXCEPT !.write = "not_opened"], [IoOk EXCEPT !.write = "truncated"],
   [IoOk EXCEPT !.chmod = "error"]}

\* The file systems an install can find: every file lies in a directory.
FileSystems ==
  {f \in {FileSystem(d, fl) : d \in SUBSET Dirs,
                              fl \in [Paths -> {Absent, File("old", "644")}]} :
     \A p \in Paths : f.files[p].exists => Parent(p) \in f.dirs}

\* ------------------------------------------------------------------ source builds
\* A URL, as the pieces of its text in order.
ends_with(url, suffix) == url # <<>> /\ url[Len(url)] = suffix
contains(url, piece) == piece \in SeqToSet(url)

\* The test install_source takes a URL for a git repository by.
is_git_url(url) ==
  ends_with(url, ".git") \/ contains(url, "github.com") \/ contains(url, "gitlab.com")

RECURSIVE run_shell_commands(_, _, _, _)
\* A `for command in ...` loop of install_source from command i on: a command
\* that the shell cannot be spawned for returns the io::Error, one that exits
\* non-zero returns InstallationFailed.
run_shell_commands(step, commands, outcomes, i) ==
  IF i > Len(commands) THEN [ret |-> "Ok", events |-> <<>>]
  ELSE LET done == Event(step, <<commands[i]>>, outcomes[i])
       IN CASE outcomes[i] = "error" -> [ret |-> "Io", events |-> <<done>>]
            [] outcomes[i] = "nonzero" -> [ret |-> "InstallationFailed", events |-> <<done>>]
            [] OTHER -> LET rest == run_shell_commands(step, commands, outcomes, i + 1)
                        IN [ret |-> rest.ret, events |-> <<done>> \o rest.events]

\* install_source going on to the install commands whatever the build
\* commands returned.
install_source_build_unchecked(url, build_commands, install_commands, env) ==
  LET nb == Len(build_commands)
      ni == Len(install_commands)
      clone == <<Event("git_clone", url, env.clone)>>
      build == run_shell_commands("build", build_commands, SubSeq(env.commands, 1, nb), 1)
      inst == run_shell_commands("install", install_commands,
                                 SubSeq(env.commands, nb + 1, nb + ni), 1)
  IN IF env.tempdir # "ok" THEN [ret |-> "Io", events |-> <<>>]
     ELSE IF is_git_url(url)
     THEN CASE env.clone = "error" -> [ret |-> "Io", events |-> clone]
            [] env.clone = "nonzero" -> [ret |-> "InstallationFailed", events |-> clone]
            [] OTHER -> [ret |-> IF build.ret # "Ok" THEN build.ret ELSE inst.ret,
                         events |-> clone \o build.events \o inst.events]
     ELSE [ret |-> IF env.download = "ok" THEN "InstallationFailed" ELSE "Network",
           events |-> <<Event("download", url, env.download)>>]

\* Installer::install_source; env says how the temporary directory, the clone,
\* the download and each shell command end.
install_source(url, build_commands, install_commands, env) ==
  LET nb == Len(build_commands)
      ni == Len(install_commands)
      clone == <<Event("git_clone", url, env.clone)>>
      build == run_shell_commands("build", build_commands, SubSeq(env.commands, 1, nb), 1)
      inst == run_shell_commands("install", install_commands,
                                 SubSeq(env.commands, nb + 1, nb + ni), 1)
  IN IF env.tempdir # "ok" THEN [ret |-> "Io", events |-> <<>>]
     ELSE IF is_git_url(url)
     THEN CASE env.clone = "error" -> [ret |-> "Io", events |-> clone]
            [] env.clone = "nonzero" -> [ret |-> "InstallationFailed", events |-> clone]
            [] build.ret # "Ok" -> [ret |-> build.ret, events |-> clone \o build.events]
            [] OTHER -> [ret |-> inst.ret,
                         events |-> clone \o build.events \o inst.events]
     ELSE [ret |-> IF env.download = "ok" THEN "InstallationFailed" ELSE "Network",
           events |-> <<Event("download", url, env.download)>>]

\* The URLs install_source is checked on.
SourceUrls ==
  {<<"https://example.org/", "repo", ".git">>,
   <<"https://", "github.com", "/owner/repo">>,
   <<"https://", "gitlab.com", "/owner/repo/-/archive/main", ".tar.gz">>,
   <<"https://example.org/", "src", ".tar.gz">>,
   <<"ssh://git@example.org/", "repo">>}

\* How the steps of one install_source call on n commands can end: at most
\* one of them fails, the steps behind it are given "ok".
SourceEnvironments(n) ==
  LET ok == [tempdir |-> "ok", clone |-> "ok", download |-> "ok", commands |-> AllOk(n)]
  IN {ok, [ok EXCEPT !.tempdir = "error"]}
       \cup {[ok EXCEPT !.clone = x] : x \in {"nonzero", "error"}}
       \cup {[ok EXCEPT !.download = x] : x \in {"send_error", "read_error"}}
       \cup {[ok EXCEPT !.commands[i] = x] : i \in 1..n, x \in {"nonzero", "error"}}

\* ------------------------------------------------------------------ removal
\* The id of the Flatpak definition.
FlatpakId == "org.example.App"

\* Each removal path's external step: the command or file operation, its
\* arguments, and how it ended.
RemoveOutcomes(method) ==
  IF method \in {"Pacman", "Flatpak"} THEN {"ok", "nonzero", "error"} ELSE {"ok", "error"}

\* remove_package giving Ok for a method without a removal path.
remove_package_silent_ok(f, package, auto, outcome) ==
  LET inst == package.installation
  IN CASE inst.method = "Pacman" ->
            [fs |-> f,
             ret |-> CASE outcome = "ok" -> "Ok" [] outcome = "nonzero" -> "InstallationFailed"
                       [] OTHER -> "Io",
             message |-> IF outcome = "nonzero" THEN "Failed to remove pacman packages" ELSE "",
             events |-> <<Event("pacman",
                                <<"-R", "--noconfirm">> \o (IF auto THEN <<"-s">> ELSE <<>>)
                                  \o inst.packages,
                                outcome)>>]
       [] inst.method = "Flatpak" ->
            [fs |-> f,
             ret |-> CASE outcome = "ok" -> "Ok" [] outcome = "nonzero" -> "InstallationFailed"
                       [] OTHER -> "Io",
             message |-> IF outcome = "nonzero" THEN "Failed to remove Flatpak" ELSE "",
             events |-> <<Event("flatpak", <<"uninstall", "-y", FlatpakId>>, outcome)>>]
       [] inst.method = "Binary" ->
            IF f.files[InstallPath].exists
            THEN IF outcome = "ok"
                 THEN [fs |-> [f EXCEPT !.files[InstallPath] = Absent], ret |-> "Ok",
                       message |-> "",
                       events |-> <<Event("remove_file", <<InstallPath>>, outcome)>>]
                 ELSE [fs |-> f, ret |-> "Io", message |-> "",
                       events |-> <<Event("remove_file", <<InstallPath>>, outcome)>>]
            ELSE [fs |-> f, ret |-> "Ok", message |-> "", events |-> <<>>]
       [] OTHER -> [fs |-> f, ret |-> "Ok", message |-> "", events |-> <<>>]

\* remove::remove_package on the file system f.
remove_package(f, package, auto, outcome) ==
  LET inst == package.installation
  IN CASE inst.method = "Pacman" ->
            [fs |-> f,
             ret |-> CASE outcome = "ok" -> "Ok" [] outcome = "nonzero" -> "InstallationFailed"
                       [] OTHER -> "Io",
             message |-> IF outcome = "nonzero" THEN "Failed to remove pacman packages" ELSE "",
             events |-> <<Event("pacman",
                                <<"-R", "--noconfirm">> \o (IF auto THEN <<"-s">> ELSE <<>>)
                                  \o inst.packages,
                                outcome)>>]
       [] inst.method = "Flatpak" ->
            [fs |-> f,
             ret |-> CASE outcome = "ok" -> "Ok" [] outcome = "nonzero" -> "InstallationFailed"
                       [] OTHER -> "Io",
             message |-> IF outcome = "nonzero" THEN "Failed to remove Flatpak" ELSE "",
             events |-> <<Event("flatpak", <<"uninstall", "-y", FlatpakId>>, outcome)>>]
       [] inst.method = "Binary" ->
            IF f.files[InstallPath].exists
            THEN IF outcome = "ok"
                 THEN [fs |-> [f EXCEPT !.files[InstallPath] = Absent], ret |-> "Ok",
                       message |-> "",
                       events |-> <<Event("remove_file", <<InstallPath>>, outcome)>>]
                 ELSE [fs |-> f, ret |-> "Io", message |-> "",
                       events |-> <<Event("remove_file", <<InstallPath>>, outcome)>>]
            ELSE [fs |-> f, ret |-> "Ok", message |-> "", events |-> <<>>]
       [] OTHER ->
            [fs |-> f, ret |-> "InstallationFailed",
             message |-> "Removal not implemented for this installation method",
             events |-> <<>>]

\* ------------------------------------------------------------------ inputs
\* Dependency entries of the definition sets the resolver is checked on.
ResolverDeps ==
  {Dependency(n, o, "Package") : n \in Names, o \in BOOLEAN}
    \cup {Dependency(n, FALSE, t) : n \in {"a", "c"}, t \in DependencyType \ {"Package"}}

PlainPackage == Package("1", <<>>, Installation("Pacman", <<"p">>), NoPost)

\* The packages that carry a dependency list in those definition sets; the
\* third name is a leaf, and may be left undefined.
Dependents == {"a", "b"}

RECURSIVE DefinitionSets(_)
\* Every such definition set with at most k dependency entries.
DefinitionSets(k) ==
  IF k = 0 THEN {[n \in S |-> PlainPackage] : S \in {Dependents, Names}}
  ELSE LET prev == DefinitionSets(k - 1)
       IN prev \cup UNION {
            {[s EXCEPT ![n].dependencies = Append(@, d)] : n \in Dependents, d \in ResolverDeps}
            : s \in prev}

RECURSIVE SeqsUpTo(_, _)
SeqsUpTo(S, k) ==
  IF k = 0 THEN {<<>>}
  ELSE LET prev == SeqsUpTo(S, k - 1)
       IN prev \cup {Append(s, x) : s \in prev, x \in S}

Requests == SeqsUpTo(Names, MaxReq)

\* ------------------------------------------------------------------ SpecResolve
InitResolve ==
  /\ packages \in DefinitionSets(MaxEdges)
  /\ installed_cache = [n \in DOMAIN packages |-> NotInstalled]
  /\ pc = "idle"
  /\ requested = <<>>
  /\ force = FALSE
  /\ result = Ok(<<>>)
  /\ idx = 0
  /\ attempts = <<>>
  /\ last = NoCall
  /\ ExtIdle

Resolve(names) ==
  /\ pc = "idle"
  /\ requested' = names
  /\ result' = resolve_packages(packages, names)
  /\ pc' = "resolved"
  /\ UNCHANGED <<packages, installed_cache, force, idx, attempts, last>>
  /\ UNCHANGED ext

NextResolve == \E names \in Requests : Resolve(names)

SpecResolve == InitResolve /\ [][NextResolve]_vars

\* ------------------------------------------------------------------ Spec
\* The definition sets the install command is checked on: a and b installed by
\* the native manager, a needing b, system libraries and a full post-install
\* block; c (when defined) installed by another method.
OtherMethods == {"Aur", "Binary", "Source", "Script", "AppImage", "Flatpak"}

PackageA ==
  Package("1",
          <<Dependency("b", FALSE, "Package"), Dependency("libx", FALSE, "System"),
            Dependency("liby", TRUE, "System")>>,
          Installation("Pacman", <<"pa", "pb">>),
          PostInstall(<<"cmd">>, <<"file">>, <<"svc">>, <<"grp">>, TRUE))

PackageB == Package("1", <<>>, Installation("Pacman", <<"pb">>), NoPost)

PackageC(m) ==
  Package("2",
          <<Dependency("libz", FALSE, "System"), Dependency("a", TRUE, "Package")>>,
          Installation(m, <<>>),
          PostInstall(<<"cmd">>, <<>>, <<>>, <<>>, FALSE))

\* b needing a as well: a cycle.
PackageBCyclic ==
  Package("1", <<Dependency("a", FALSE, "Package")>>, Installation("Pacman", <<"pb">>), NoPost)

InstallStores ==
  {[n \in {"a", "b"} |-> IF n = "a" THEN PackageA ELSE PackageB]}
    \cup {[n \in Names |-> CASE n = "a" -> PackageA
                             [] n = "b" -> b
                             [] OTHER -> PackageC(m)] :
             m \in OtherMethods, b \in {PackageB, PackageBCyclic}}

\* What `pacman -Q` can report for the native packages of the definitions.
PacmanDbs == [{"pa", "pb"} -> {NotFound, Found("1"), Found("2")}]

\* Manager::new: the definitions are loaded and the status map is refreshed.
Init ==
  /\ packages \in InstallStores
  /\ \E db \in PacmanDbs, order \in Orders(DOMAIN packages) :
       installed_cache = refresh_installed_cache(packages, db, order).cache
  /\ pc = "idle"
  /\ requested = <<>>
  /\ force = FALSE
  /\ result = Ok(<<>>)
  /\ idx = 0
  /\ attempts = <<>>
  /\ last = NoCall
  /\ ExtIdle

\* install::execute going on with what was resolved before the error.
StartInstall_partial_plan(names, f, go) ==
  /\ pc = "idle"
  /\ requested' = names
  /\ force' = f
  /\ attempts' = <<>>
  /\ last' = NoCall
  /\ LET r == resolve_packages(packages, names)
         partial == resolve_final(packages, names).resolved
     IN /\ result' = [r EXCEPT !.list = partial]
        /\ IF partial = <<>> \/ ~go THEN pc' = "done" /\ idx' = 0
           ELSE pc' = "installing" /\ idx' = 1
  /\ UNCHANGED <<packages, installed_cache>>
  /\ UNCHANGED ext

\* install::execute up to its install loop, on a fresh App or on one that
\* has executed commands before; `go` is FALSE for --dry-run and for a declined
\* confirmation.
StartInstall(names, f, go) ==
  /\ pc = "idle"
  /\ requested' = names
  /\ force' = f
  /\ attempts' = <<>>
  /\ last' = NoCall
  /\ LET r == resolve_packages(packages, names)
     IN /\ result' = r
        /\ IF ~r.ok THEN pc' = "failed" /\ idx' = 0
           ELSE IF r.list = <<>> \/ ~go THEN pc' = "done" /\ idx' = 0
           ELSE pc' = "installing" /\ idx' = 1
  /\ UNCHANGED <<packages, installed_cache>>
  /\ UNCHANGED ext

\* The install loop walking the resolved list from its end.
InstallNext_reverse_order ==
  /\ pc = "installing"
  /\ idx <= Len(result.list)
  /\ LET name == result.list[Len(result.list) + 1 - idx]
         package == packages[name]
     IN \E r \in {install_package(installed_cache, name, package, force, env) :
                    env \in Environments(package)} :
          /\ installed_cache' = r.cache
          /\ last' = Call(name, force, installed_cache, r.ret, r.events)
          /\ attempts' = Append(attempts, [name |-> name, ret |-> r.ret])
  /\ idx' = idx + 1
  /\ pc' = IF idx = Len(result.list) THEN "done" ELSE "installing"
  /\ UNCHANGED <<packages, requested, force, result>>
  /\ UNCHANGED ext

\* The install loop returning the first error of install_package.
InstallNext_stop_on_failure ==
  /\ pc = "installing"
  /\ idx <= Len(result.list)
  /\ LET name == result.list[idx]
         package == packages[name]
     IN \E r \in {install_package(installed_cache, name, package, force, env) :
                    env \in Environments(package)} :
          /\ installed_cache' = r.cache
          /\ last' = Call(name, force, installed_cache, r.ret, r.events)
          /\ attempts' = Append(attempts, [name |-> name, ret |-> r.ret])
          /\ pc' = IF r.ret # "Ok" THEN "failed"
                   ELSE IF idx = Len(result.list) THEN "done" ELSE "installing"
  /\ idx' = idx + 1
  /\ UNCHANGED <<packages, requested, force, result>>
  /\ UNCHANGED ext

\* One iteration of the install loop of install::execute; the command returns
\* Ok after the last one, whatever the outcomes were.
InstallNext ==
  /\ pc = "installing"
  /\ idx <= Len(result.list)
  /\ LET name == result.list[idx]
         package == packages[name]
     IN \E r \in {install_package(installed_cache, name, package, force, env) :
                    env \in Environments(package)} :
          /\ installed_cache' = r.cache
          /\ last' = Call(name, force, installed_cache, r.ret, r.events)
          /\ attempts' = Append(attempts, [name |-> name, ret |-> r.ret])
  /\ idx' = idx + 1
  /\ pc' = IF idx = Len(result.list) THEN "done" ELSE "installing"
  /\ UNCHANGED <<packages, requested, force, result>>
  /\ UNCHANGED ext

\* The command has returned; the App (definitions and status map) lives on
\* for the caller's next command.
Return ==
  /\ pc \in {"done", "failed"}
  /\ pc' = "idle"
  /\ requested' = <<>>
  /\ force' = FALSE
  /\ result' = Ok(<<>>)
  /\ idx' = 0
  /\ attempts' = <<>>
  /\ last' = NoCall
  /\ UNCHANGED <<packages, installed_cache>>
  /\ UNCHANGED ext

Next ==
  \/ \E names \in Requests \ {<<>>}, f \in BOOLEAN, go \in BOOLEAN :
       StartInstall(names, f, go)
  \/ InstallNext
  \/ Return

Spec == Init /\ [][Next]_vars

\* ------------------------------------------------------------------ SpecInstaller
\* No command is running and no definition is loaded.
CoreIdle ==
  /\ packages = [n \in {} |-> PlainPackage]
  /\ installed_cache = [n \in {} |-> NotInstalled]
  /\ pc = "idle"
  /\ requested = <<>>
  /\ force = FALSE
  /\ result = Ok(<<>>)
  /\ idx = 0
  /\ attempts = <<>>
  /\ last = NoCall

InitInstaller ==
  /\ CoreIdle
  /\ fs \in FileSystems
  /\ call = NoOp
  /\ index = Closed /\ disk = NoFile /\ now = 0
  /\ autoremove = FALSE

\* Installer::install dispatching a Binary definition.
InstallBinary(resp, checksum, executable) ==
  /\ \E r \in {install_binary(fs, resp, checksum, InstallPath, executable, io) :
                 io \in IoOutcomes} :
       /\ fs' = r.fs
       /\ call' = OpCall("install_binary",
                         [resp |-> resp, checksum |-> checksum, path |-> InstallPath],
                         r.ret, NoValue, r.events)
  /\ UNCHANGED core
  /\ UNCHANGED <<index, disk, now, autoremove>>

\* Installer::install dispatching the AppImage definition named c.
InstallAppImage(resp, checksum, integrate) ==
  /\ \E r \in {install_appimage(fs, resp, checksum, integrate, "c", io) :
                 io \in IoOutcomes} :
       /\ fs' = r.fs
       /\ call' = OpCall("install_appimage",
                         [resp |-> resp, checksum |-> checksum, path |-> AppImagePath("c")],
                         r.ret, NoValue, r.events)
  /\ UNCHANGED core
  /\ UNCHANGED <<index, disk, now, autoremove>>

NextInstaller ==
  \/ \E resp \in Responses, checksum \in Checksums, executable \in BOOLEAN :
       InstallBinary(resp, checksum, executable)
  \/ \E resp \in Responses, checksum \in Checksums, integrate \in BOOLEAN :
       InstallAppImage(resp, checksum, integrate)

SpecInstaller == InitInstaller /\ [][NextInstaller]_vars

\* ------------------------------------------------------------------ SpecSource
BuildCommands == SeqsUpTo({"./configure", "make"}, MaxCommands)
InstallCommands == SeqsUpTo({"make install", "ldconfig"}, MaxCommands)

\* A definition built from source.
SourceDefinition(url, build_commands, install_commands) ==
  Package("1", <<>>,
          [method |-> "Source", packages |-> <<>>, url |-> url,
           build_commands |-> build_commands, install_commands |-> install_commands],
          NoPost)

\* An App whose Definition Store holds one definition built from source.
InitSource ==
  /\ \E url \in SourceUrls, build_commands \in BuildCommands,
        install_commands \in InstallCommands :
       packages = [n \in {"source"} |->
                     SourceDefinition(url, build_commands, install_commands)]
  /\ installed_cache = [n \in {"source"} |-> NotInstalled]
  /\ pc = "idle"
  /\ requested = <<>>
  /\ force = FALSE
  /\ result = Ok(<<>>)
  /\ idx = 0
  /\ attempts = <<>>
  /\ last = NoCall
  /\ ExtIdle

\* Installer::install dispatching the Source definition.
InstallSource ==
  /\ LET source == packages["source"].installation
     IN \E r \in {install_source(source.url, source.build_commands,
                                  source.install_commands, env) :
                     env \in SourceEnvironments(Len(source.build_commands)
                                                  + Len(source.install_commands))} :
          call' = OpCall("install_source",
                         [url |-> source.url, build_commands |-> source.build_commands,
                          install_commands |-> source.install_commands],
                         r.ret, NoValue, r.events)
  /\ UNCHANGED core
  /\ UNCHANGED <<fs, index, disk, now, autoremove>>

NextSource == InstallSource

SpecSource == InitSource /\ [][NextSource]_vars

\* ------------------------------------------------------------------ SpecCache
CacheNames == {"a", "b"}
CachedPackages ==
  {CachedPackage("a", "1"), CachedPackage("a", "2"), CachedPackage("b", "1")}
\* The TTLs the cache is opened with.
TtlHours == {0, 1, 2, u64_MAX}

InitCache ==
  /\ CoreIdle
  /\ fs = NoFiles
  /\ autoremove = FALSE
  /\ call = NoOp
  /\ index = Closed
  /\ disk \in {NoFile, Corrupt}
  /\ now = 0

\* CacheManager::new on the cache directory.
CacheOpen(ttl_hours) ==
  /\ ~index.open
  /\ LET r == CacheManager_new(disk, ttl_hours, now)
     IN /\ index' = r.index
        /\ disk' = r.disk
        /\ call' = OpCall("new", [ttl_hours |-> ttl_hours], r.ret, NoValue, <<>>)
  /\ UNCHANGED <<core, fs, autoremove, now>>

\* The CacheManager is dropped; index.json stays.
CacheDrop ==
  /\ index.open
  /\ index' = Closed
  /\ call' = OpCall("drop", NoArgs, "Ok", NoValue, <<>>)
  /\ UNCHANGED <<core, fs, autoremove, disk, now>>

GetPackage(name) ==
  /\ index.open
  /\ name \in DOMAIN index.entries => index.entries[name].access_count < MaxAccess
  /\ LET r == get_package(index, name, now)
     IN /\ index' = r.index
        /\ call' = OpCall("get_package", [name |-> name],
                          IF r.ret.some THEN "Some" ELSE "None",
                          IF r.ret.some THEN r.ret.value ELSE NoValue, r.events)
  /\ UNCHANGED <<core, fs, autoremove, disk, now>>

StorePackage(package) ==
  /\ index.open
  /\ LET r == store_package(index, disk, package, now)
     IN /\ index' = r.index
        /\ disk' = r.disk
        /\ call' = OpCall("store_package", [package |-> package], r.ret,
                          [replaced |-> r.replaced], <<>>)
  /\ UNCHANGED <<core, fs, autoremove, now>>

Invalidate(name) ==
  /\ index.open
  /\ LET r == invalidate(index, disk, name)
     IN /\ index' = r.index
        /\ disk' = r.disk
        /\ call' = OpCall("invalidate", [name |-> name], r.ret, NoValue, <<>>)
  /\ UNCHANGED <<core, fs, autoremove, now>>

Clear ==
  /\ index.open
  /\ LET r == clear(index, disk)
     IN /\ index' = r.index
        /\ disk' = r.disk
        /\ call' = OpCall("clear", NoArgs, r.ret, NoValue, <<>>)
  /\ UNCHANGED <<core, fs, autoremove, now>>

GetStatistics ==
  /\ index.open
  /\ call' = OpCall("get_statistics", NoArgs, "Ok", get_statistics(index), <<>>)
  /\ UNCHANGED <<core, fs, autoremove, index, disk, now>>

\* Half an hour passes (the clock never runs backwards).
Tick ==
  /\ now < MaxTime
  /\ now' = now + 1
  /\ UNCHANGED <<core, fs, autoremove, call, index, disk>>

NextCache ==
  \/ \E ttl_hours \in TtlHours : CacheOpen(ttl_hours)
  \/ CacheDrop
  \/ \E name \in CacheNames : GetPackage(name)
  \/ \E package \in CachedPackages : StorePackage(package)
  \/ \E name \in CacheNames : Invalidate(name)
  \/ Clear
  \/ GetStatistics
  \/ Tick

SpecCache == InitCache /\ [][NextCache]_vars

\* ------------------------------------------------------------------ SpecRemove
\* One definition per installation method, named after the method's tag.
MethodOf ==
  [pacman |-> "Pacman", aur |-> "Aur", binary |-> "Binary", source |-> "Source",
   script |-> "Script", appimage |-> "AppImage", flatpak |-> "Flatpak"]
RemoveNames == DOMAIN MethodOf
RemoveStore ==
  [n \in RemoveNames |->
     Package("1", <<>>,
             Installation(MethodOf[n], IF n = "pacman" THEN <<"pa", "pb">> ELSE <<>>),
             NoPost)]
\* What a remove command can be asked for: defined names and an unknown one.
RemoveRequests == SeqsUpTo(RemoveNames \cup {"zz"}, MaxReq) \ {<<>>}

\* The definitions a session has installed before the remove command: all,
\* none, those with a removal path, those without.
InstalledSets ==
  {RemoveNames, {}, {"pacman", "flatpak", "binary"},
   {"aur", "source", "script", "appimage"}}

\* A session in which some of the definitions have been installed; the binary
\* may since have been deleted by hand.
InitRemove ==
  /\ packages = RemoveStore
  /\ \E S \in InstalledSets :
       installed_cache = [n \in RemoveNames |->
                            IF n \in S THEN Installed("1", "now") ELSE NotInstalled]
  /\ pc = "idle"
  /\ requested = <<>>
  /\ force = FALSE
  /\ result = Ok(<<>>)
  /\ idx = 0
  /\ attempts = <<>>
  /\ last = NoCall
  /\ fs \in {f \in FileSystems : /\ f.files[AppImagePath("c")] = Absent
                                  /\ f.dirs = {Parent(InstallPath)}}
  /\ call = NoOp
  /\ index = Closed /\ disk = NoFile /\ now = 0
  /\ autoremove = FALSE

\* remove::execute up to its removal loop; `go` is FALSE for --dry-run and for
\* a declined confirmation.
StartRemove(names, auto, go) ==
  /\ pc = "idle"
  /\ requested' = names
  /\ autoremove' = auto
  /\ attempts' = <<>>
  /\ call' = NoOp
  /\ LET packages_to_remove ==
           SelectSeq(names, LAMBDA n : is_installed(installed_cache, n)
                                         /\ n \in DOMAIN packages)
     IN /\ result' = Ok(packages_to_remove)
        /\ IF packages_to_remove = <<>> \/ ~go THEN pc' = "done" /\ idx' = 0
           ELSE pc' = "removing" /\ idx' = 1
  /\ UNCHANGED <<packages, installed_cache, force, last, fs, index, disk, now>>

\* The removal loop marking what it removed as NotInstalled.
RemoveNext_status_updated ==
  /\ pc = "removing"
  /\ idx <= Len(result.list)
  /\ LET name == result.list[idx]
         package == packages[name]
     IN \E r \in {remove_package(fs, package, autoremove, outcome) :
                    outcome \in RemoveOutcomes(package.installation.method)} :
          /\ fs' = r.fs
          /\ call' = OpCall("remove_package", [name |-> name], r.ret,
                            [message |-> r.message], r.events)
          /\ attempts' = Append(attempts, [name |-> name, ret |-> r.ret])
          /\ installed_cache' = IF r.ret = "Ok"
                                THEN [installed_cache EXCEPT ![name] = NotInstalled]
                                ELSE installed_cache
  /\ idx' = idx + 1
  /\ pc' = IF idx = Len(result.list) THEN "done" ELSE "removing"
  /\ UNCHANGED <<packages, requested, force, result, last,
                 index, disk, now, autoremove>>

\* One iteration of the removal loop of remove::execute.
RemoveNext ==
  /\ pc = "removing"
  /\ idx <= Len(result.list)
  /\ LET name == result.list[idx]
         package == packages[name]
     IN \E r \in {remove_package(fs, package, autoremove, outcome) :
                    outcome \in RemoveOutcomes(package.installation.method)} :
          /\ fs' = r.fs
          /\ call' = OpCall("remove_package", [name |-> name], r.ret,
                            [message |-> r.message], r.events)
          /\ attempts' = Append(attempts, [name |-> name, ret |-> r.ret])
  /\ idx' = idx + 1
  /\ pc' = IF idx = Len(result.list) THEN "done" ELSE "removing"
  /\ UNCHANGED <<packages, installed_cache, requested, force, result, last,
                 index, disk, now, autoremove>>

\* The install commands of the session the remove command is checked in.
InstallRequests == {<<n>> : n \in {"pacman", "binary", "script"}}

NextRemove ==
  \/ \E names \in RemoveRequests, auto \in BOOLEAN, go \in BOOLEAN :
       StartRemove(names, auto, go)
  \/ RemoveNext
  \/ \E names \in InstallRequests, f \in BOOLEAN : StartInstall(names, f, TRUE)
  \/ InstallNext
  \/ Return

SpecRemove == InitRemove /\ [][NextRemove]_vars

\* ------------------------------------------------------------------ SpecManager
\* The definition files the loader is checked on.
InvalidPackages ==
  {[PackageB EXCEPT !.version = ""], [PackageB EXCEPT !.description = ""],
   [PackageB EXCEPT !.installation.packages = <<>>]}
DefinitionFiles ==
  {SingleFile("a", PackageA), SingleFile("b", PackageB), MalformedFile, UnreadableFile}
    \cup {SingleFile("c", PackageC(m)) : m \in OtherMethods}
    \cup {SingleFile("c", p) : p \in InvalidPackages}
    \cup {MapFile(<<Definition("b", PackageB), Definition("c", [PackageB EXCEPT !.version = ""])>>),
          MapFile(<<Definition("c", [PackageB EXCEPT !.version = ""]), Definition("b", PackageB)>>)}

RECURSIVE DistinctSeqs(_, _)
\* The sequences of at most k distinct elements of S.
DistinctSeqs(S, k) ==
  IF k = 0 THEN {<<>>}
  ELSE LET shorter == DistinctSeqs(S, k - 1)
       IN shorter \cup {Append(p[1], p[2]) :
                          p \in {q \in shorter \X S :
                                   Len(q[1]) = k - 1 /\ q[2] \notin SeqToSet(q[1])}}
Directories == DistinctSeqs(DefinitionFiles, MaxFiles)

\* What `pacman -Q` can end with for each native package name.
ProbeDbs == [{"pa", "pb"} -> {NotFound, Found("1"), Found("2"), SpawnError}]

InitManager ==
  /\ packages = [n \in {} |-> PlainPackage]
  /\ installed_cache = [n \in {} |-> NotInstalled]
  /\ pc = "start"
  /\ requested = <<>>
  /\ force = FALSE
  /\ result = Ok(<<>>)
  /\ idx = 0
  /\ attempts = <<>>
  /\ last = NoCall
  /\ ExtIdle

\* Manager::new with one package path: the files of the directory are loaded
\* in the order of the walk, then the status map is refreshed, the definitions
\* iterated in `order`. On an error the loader and the status map are dropped
\* and no Manager is returned.
Manager_new(files, db, order) ==
  LET none == [n \in {} |-> <<>>]
      l == load_from_directory(none, files)
      r == refresh_installed_cache(l.packages, db, order)
  IN IF l.ret # "Ok"
     THEN [ret |-> l.ret, packages |-> none, cache |-> none, probes |-> none]
     ELSE IF r.ret # "Ok"
     THEN [ret |-> r.ret, packages |-> none, cache |-> none, probes |-> r.probes]
     ELSE [ret |-> "Ok", packages |-> l.packages, cache |-> r.cache, probes |-> r.probes]

ManagerNew(files, db) ==
  /\ pc = "start"
  /\ \E r \in {Manager_new(files, db, order) :
                 order \in Orders(DOMAIN load_from_directory(packages, files).packages)} :
       /\ pc' = IF r.ret = "Ok" THEN "ready" ELSE "failed"
       /\ packages' = r.packages
       /\ installed_cache' = r.cache
       /\ call' = OpCall("Manager::new", [files |-> files, db |-> db], r.ret,
                         [probes |-> r.probes], <<>>)
  /\ UNCHANGED <<requested, force, result, idx, attempts, last>>
  /\ UNCHANGED <<fs, index, disk, now, autoremove>>

\* update::execute handing a fetched definition file to the running loader.
LoadDefinitionFile(file) ==
  /\ pc = "ready"
  /\ LET r == load_definition_file(packages, file)
     IN /\ packages' = r.packages
        /\ call' = OpCall("load_definition_file", [file |-> file], r.ret, NoValue, <<>>)
  /\ UNCHANGED <<installed_cache, pc, requested, force, result, idx, attempts, last>>
  /\ UNCHANGED <<fs, index, disk, now, autoremove>>

NextManager ==
  \/ \E files \in Directories, db \in ProbeDbs : ManagerNew(files, db)
  \/ \E file \in DefinitionFiles : LoadDefinitionFile(file)

SpecManager == InitManager /\ [][NextManager]_vars

\* ------------------------------------------------------------------ graph vocabulary
\* Names of the non-optional Package-kind dependencies a package lists.
MandatoryDeps(pk, n) ==
  IF n \notin DOMAIN pk THEN {}
  ELSE {d.name : d \in {e \in SeqToSet(pk[n].dependencies) :
                          ~e.optional /\ e.dep_type = "Package"}}

OptionalDeps(pk, n) ==
  IF n \notin DOMAIN pk THEN {}
  ELSE {d.name : d \in {e \in SeqToSet(pk[n].dependencies) : e.optional}}

RECURSIVE Closure(_, _)
\* Every name reachable from S (S included) through mandatory Package-kind edges.
Closure(pk, S) ==
  LET T == S \cup UNION {MandatoryDeps(pk, n) : n \in S}
  IN IF T = S THEN S ELSE Closure(pk, T)

\* n reaches m in one or more mandatory Package-kind edges.
Reaches(pk, n, m) == m \in Closure(pk, MandatoryDeps(pk, n))

OnCycle(pk, n) == Reaches(pk, n, n)
Acyclic(pk) == \A n \in DOMAIN pk : ~OnCycle(pk, n)
Reachable(pk, names) == Closure(pk, SeqToSet(names))
AllExist(pk, names) == Reachable(pk, names) \subseteq DOMAIN pk
ReachesCycle(pk, names) == \E n \in Reachable(pk, names) : OnCycle(pk, n)
Missing(pk, names) == Reachable(pk, names) \ DOMAIN pk

NoDuplicates(list) == \A i, j \in 1..Len(list) : list[i] = list[j] => i = j
DepsFirst(pk, list) ==
  \A i, j \in 1..Len(list) : list[j] \in MandatoryDeps(pk, list[i]) => j < i

\* What C1 promises of a successful resolution.
ResolvedRight(pk, names, r) ==
  /\ r.ok
  /\ SeqToSet(r.list) = Reachable(pk, names)
  /\ NoDuplicates(r.list)
  /\ DepsFirst(pk, r.list)

Resolved == pc = "resolved"

\* ------------------------------------------------------------------ C1
\* C1 as stated: for an acyclic definition set and requested names that all
\* exist, resolve_packages succeeds with exactly the requested packages and
\* their transitive mandatory Package-kind dependencies, each once, every
\* dependency before its dependents.
C1_AsStated ==
  (Resolved /\ Acyclic(packages) /\ SeqToSet(requested) \subseteq DOMAIN packages)
    => ResolvedRight(packages, requested, result)

\* C1 (amended): the same, for requests whose every reachable mandatory
\* Package-kind dependency name is defined in the store as well.
C1_ResolveOrder ==
  (Resolved /\ Acyclic(packages) /\ AllExist(packages, requested))
    => ResolvedRight(packages, requested, result)

\* A diamond: a needs b and c, b needs c; c is reached twice and listed once.
C1_Witness ==
  /\ Resolved /\ Acyclic(packages) /\ AllExist(packages, requested)
  /\ requested = <<"a", "a">>
  /\ {"b", "c"} \subseteq MandatoryDeps(packages, "a")
  /\ "c" \in MandatoryDeps(packages, "b")
  /\ result = Ok(<<"c", "b", "a">>)

\* ------------------------------------------------------------------ C2
\* C2 as stated: whenever a requested name (a defined one) reaches a cycle of
\* mandatory Package-kind dependencies, resolve fails with a Dependency error
\* naming a package on the cycle.
C2_AsStated ==
  (Resolved /\ SeqToSet(requested) \subseteq DOMAIN packages
            /\ ReachesCycle(packages, requested))
    => /\ ~result.ok
       /\ result.err.kind = "Dependency"
       /\ OnCycle(packages, result.err.name)

\* C2 (amended): when a requested name reaches such a cycle, resolve fails; the
\* error is a Dependency error naming a package on a cycle that was in the
\* visiting set, unless the traversal met a name missing from the store first,
\* and then it is PackageNotFound of that name. When every reachable name is
\* defined, it is the Dependency error.
C2_CycleDetected ==
  (Resolved /\ ReachesCycle(packages, requested))
    => /\ ~result.ok
       /\ result.err.kind \in {"Dependency", "PackageNotFound"}
       /\ result.err.kind = "Dependency"
            => /\ OnCycle(packages, result.err.name)
               /\ result.err.name \in resolve_final(packages, requested).visiting
       /\ result.err.kind = "PackageNotFound"
            => result.err.name \in Missing(packages, requested)
       /\ AllExist(packages, requested) => result.err.kind = "Dependency"

\* a -> b -> a, and every name is defined: resolve([a]) reports the cycle at a.
C2_Witness ==
  /\ Resolved /\ requested = <<"a">>
  /\ DOMAIN packages = Names
  /\ "b" \in MandatoryDeps(packages, "a") /\ "a" \in MandatoryDeps(packages, "b")
  /\ result = Err(DependencyError("a"))

\* ------------------------------------------------------------------ C3
\* C3 as stated: resolve([X]) with X absent fails with PackageNotFound(X); and
\* when the requested packages exist but a reachable mandatory Package-kind
\* dependency name is missing, resolve fails with PackageNotFound of a missing
\* dependency name.
C3_AsStated ==
  /\ (Resolved /\ Len(requested) = 1 /\ requested[1] \notin DOMAIN packages)
       => result = Err(PackageNotFound(requested[1]))
  /\ (Resolved /\ SeqToSet(requested) \subseteq DOMAIN packages
               /\ Missing(packages, requested) # {})
       => /\ ~result.ok
          /\ result.err.kind = "PackageNotFound"
          /\ result.err.name \in Missing(packages, requested)

\* C3 (amended): resolve([X]) with X absent fails with PackageNotFound(X); when
\* a reachable mandatory Package-kind dependency name is missing, resolve
\* fails, with PackageNotFound of a missing reachable name unless the traversal
\* closed a cycle first (then with the Dependency error); without a reachable
\* cycle it is always PackageNotFound.
C3_NotFound ==
  /\ (Resolved /\ Len(requested) = 1 /\ requested[1] \notin DOMAIN packages)
       => result = Err(PackageNotFound(requested[1]))
  /\ (Resolved /\ Missing(packages, requested) # {})
       => /\ ~result.ok
          /\ result.err.kind \in {"PackageNotFound", "Dependency"}
          /\ result.err.kind = "PackageNotFound"
               => result.err.name \in Missing(packages, requested)
          /\ ~ReachesCycle(packages, requested) => result.err.kind = "PackageNotFound"

\* a is defined and needs c, c is not defined: resolve([a]) reports c.
C3_Witness ==
  /\ Resolved /\ requested = <<"a">>
  /\ "a" \in DOMAIN packages /\ "c" \notin DOMAIN packages
  /\ "c" \in MandatoryDeps(packages, "a")
  /\ result = Err(PackageNotFound("c"))

\* ------------------------------------------------------------------ C4
\* C4 as stated: a package that a resolved package lists as an optional
\* dependency is in the result only if its name was requested.
C4_AsStated ==
  (Resolved /\ result.ok)
    => \A p \in SeqToSet(result.list) : \A q \in OptionalDeps(packages, p) :
         q \in SeqToSet(result.list) => q \in SeqToSet(requested)

\* C4 (amended): such a package is in the result only if its name was requested
\* or it is also a non-optional Package-kind dependency of a resolved package.
C4_OptionalSkipped ==
  (Resolved /\ result.ok)
    => \A p \in SeqToSet(result.list) : \A q \in OptionalDeps(packages, p) :
         q \in SeqToSet(result.list)
           => \/ q \in SeqToSet(requested)
              \/ \E r \in SeqToSet(result.list) : q \in MandatoryDeps(packages, r)

\* a lists the defined package b as optional only: resolve([a]) is [a].
C4_Witness ==
  /\ Resolved /\ requested = <<"a">>
  /\ "b" \in DOMAIN packages
  /\ "b" \in OptionalDeps(packages, "a")
  /\ result = Ok(<<"a">>)

\* ------------------------------------------------------------------ install vocabulary
\* The package of the latest install_package call.
LastPackage == packages[last.name]

\* The names of all its System-kind dependency entries, in definition order.
SystemDepNames(package) ==
  LET sys == SelectSeq(package.dependencies, LAMBDA d : d.dep_type = "System")
  IN [i \in 1..Len(sys) |-> sys[i].name]

EventsOf(events, kinds) == SelectSeq(events, LAMBDA e : e.ev \in kinds)
PostKinds == {"command", "config_file", "service", "group", "environment"}

WasInstalled == last.before[last.name].state = "Installed"
\* The call went past the short-circuit of install_package.
RanSteps == last.called /\ (last.force \/ ~WasInstalled)

\* ------------------------------------------------------------------ C5
\* C5: resolution is all-or-nothing: when resolving a requested name fails,
\* resolve_packages returns the error and no list, the install command returns
\* that error and has called install_package for no package.
C5_AllOrNothing ==
  ~result.ok
    => /\ result.err.kind \in {"PackageNotFound", "Dependency"}
       /\ result.list = <<>>
       /\ pc = "failed"
       /\ idx = 0 /\ attempts = <<>> /\ ~last.called

\* The command failed on a later name after earlier names had been resolved.
C5_Witness ==
  /\ pc = "failed"
  /\ Len(requested) = 2
  /\ requested[1] \in SeqToSet(resolve_final(packages, requested).resolved)
  /\ result.err = PackageNotFound(requested[2])

\* ------------------------------------------------------------------ C6
\* C6: install_package(p, force=false) on a package whose status is Installed
\* returns success, runs no external step and leaves the status map as it was;
\* with force=true the call is not short-circuited whatever the status: the
\* system-dependency step runs (its batched command first, when p has System
\* dependencies) and, once that step succeeded, the strategy is dispatched.
C6_ShortCircuit ==
  last.called
    => /\ (~last.force /\ WasInstalled)
            => /\ last.ret = "Ok"
               /\ last.events = <<>>
               /\ installed_cache = last.before
       /\ last.force
            => LET sysd == SystemDepNames(LastPackage)
                   ev == last.events
               IN IF sysd = <<>>
                  THEN Len(ev) >= 1 /\ ev[1].ev = "strategy"
                  ELSE /\ Len(ev) >= 1
                       /\ ev[1].ev = "system_dependencies" /\ ev[1].arg = sysd
                       /\ IF ev[1].out = "ok"
                          THEN Len(ev) >= 2 /\ ev[2].ev = "strategy"
                          ELSE Len(ev) = 1

\* A package installed earlier in the session is skipped by an unforced call.
C6_Witness ==
  /\ last.called /\ ~last.force /\ WasInstalled
  /\ last.before[last.name].installed_at = "now"
  /\ last.ret = "Ok" /\ last.events = <<>>

\* ------------------------------------------------------------------ C7
\* C7 as stated: every install_package run that goes past the short-circuit
\* issues exactly one native-manager command for the package's System-kind
\* dependencies, with all their names as arguments.
C7_AsStated ==
  RanSteps
    => LET calls == EventsOf(last.events, {"system_dependencies"})
       IN Len(calls) = 1 /\ calls[1].arg = SystemDepNames(LastPackage)

\* C7 (amended): such a run issues exactly one batched command when the
\* package has at least one System-kind dependency, with the names of all its
\* System-kind dependencies (optional ones included) in definition order as
\* arguments, and none at all when it has no System-kind dependency.
C7_OneBatchedCall ==
  RanSteps
    => LET calls == EventsOf(last.events, {"system_dependencies"})
           sysd == SystemDepNames(LastPackage)
       IN IF sysd = <<>> THEN calls = <<>>
          ELSE Len(calls) = 1 /\ calls[1].arg = sysd

\* a has two System-kind dependencies: one command carrying both names.
C7_Witness ==
  /\ RanSteps /\ last.name = "a"
  /\ EventsOf(last.events, {"system_dependencies"})
       = <<Event("system_dependencies", <<"libx", "liby">>, "ok")>>
  /\ last.ret = "Ok"

\* ------------------------------------------------------------------ C8
\* C8: if the batched system-dependency command exits non-zero, install_package
\* fails with CommandFailed, dispatches no strategy, runs no post-install action
\* and leaves the status map as it was.
C8_SysDepsFailure ==
  (last.called
     /\ \E i \in 1..Len(last.events) :
          last.events[i].ev = "system_dependencies" /\ last.events[i].out = "nonzero")
    => /\ last.ret = "CommandFailed"
       /\ EventsOf(last.events, {"strategy"} \cup PostKinds) = <<>>
       /\ installed_cache = last.before

\* A forced install of the Installed package a whose system-dependency command
\* exits non-zero.
C8_Witness ==
  /\ last.called /\ last.name = "a" /\ last.force /\ WasInstalled
  /\ last.events = <<Event("system_dependencies", <<"libx", "liby">>, "nonzero")>>
  /\ last.ret = "CommandFailed"

\* ------------------------------------------------------------------ C9
\* C9: post-install actions are best-effort: once the strategy has succeeded,
\* every action of the post-install block is attempted whatever the outcome of
\* the others, install_package returns success and the package's status is
\* Installed.
C9_PostInstallBestEffort ==
  (last.called
     /\ \E i \in 1..Len(last.events) :
          last.events[i].ev = "strategy" /\ last.events[i].out = "ok")
    => /\ Len(EventsOf(last.events, PostKinds)) = Len(PostActions(LastPackage.post_install))
       /\ last.ret = "Ok"
       /\ installed_cache[last.name].state = "Installed"

\* ------------------------------------------------------------------ C10
\* C10: whenever install_package(p, force) runs its steps and returns success,
\* the status of p.name is Installed with the definition's version; and a
\* package that is_installed reports stays so for the rest of the session.
C10_StatusRecorded ==
  /\ [](RanSteps /\ last.ret = "Ok"
          => /\ installed_cache[last.name].state = "Installed"
             /\ installed_cache[last.name].version = LastPackage.version
             /\ is_installed(installed_cache, last.name))
  /\ [][\A n \in DOMAIN packages :
          is_installed(installed_cache, n) => is_installed(installed_cache', n)]_vars

\* A forced install of a package the refresh found Installed with another
\* version records the definition's version.
C10_Witness ==
  /\ RanSteps /\ last.ret = "Ok"
  /\ WasInstalled /\ last.before[last.name].version # LastPackage.version
  /\ installed_cache[last.name] = Installed(LastPackage.version, "now")

\* ------------------------------------------------------------------ C11
\* Every external step of the latest install_package call succeeded.
AllSucceeded == \A i \in 1..Len(last.events) : last.events[i].out = "ok"

\* C11: with a and b both installed by the native manager and a needing b,
\* resolve_packages([a]) is [b, a]; the install command attempts the list in
\* that order, each install whose external steps all succeed leaves its package
\* Installed, and when the install of b succeeded b is Installed before the
\* install of a starts and still is once a is Installed.
C11_DependencyFirst ==
  (requested = <<"a">> /\ result.ok /\ pc \in {"installing", "done"})
    => /\ result.list = <<"b", "a">>
       /\ \A i \in 1..Len(attempts) : attempts[i].name = result.list[i]
       /\ (last.called /\ AllSucceeded) => is_installed(installed_cache, last.name)
       /\ (last.called /\ last.name = "b")
            => installed_cache["a"] = last.before["a"]
       /\ (last.called /\ last.name = "a" /\ attempts[1].ret = "Ok")
            => /\ last.before["b"].state = "Installed"
               /\ is_installed(installed_cache, "b")

\* Neither was installed: the run installs b, then a.
C11_Witness ==
  /\ pc = "done" /\ requested = <<"a">>
  /\ attempts = <<[name |-> "b", ret |-> "Ok"], [name |-> "a", ret |-> "Ok"]>>
  /\ last.name = "a" /\ AllSucceeded
  /\ last.before["a"] = NotInstalled
  /\ last.before["b"] = Installed("1", "now")
  /\ installed_cache["a"] = Installed("1", "now")

\* ------------------------------------------------------------------ C12
\* The latest call was an install_binary whose download arrived with a 2xx
\* status and whose supplied checksum is not the digest of the bytes.
ChecksumMismatch(c) ==
  /\ c.op = "install_binary"
  /\ c.args.resp.sent /\ is_success(c.args.resp.status) /\ c.args.resp.read
  /\ c.args.checksum.some
  /\ calculate_sha256(c.args.resp.body) # c.args.checksum.value
\* ... whose download was answered with a status outside 2xx.
BadStatus(c) ==
  c.op = "install_binary" /\ c.args.resp.sent /\ ~is_success(c.args.resp.status)

GetStep(n) == call'.op = "get_package" /\ call'.args.name = n /\ now' = now

\* The latest call stored a package under n, and no time has passed since.
JustStored(n) ==
  /\ call.op = "store_package" /\ call.args.package.name = n
  /\ n \in DOMAIN index.entries /\ index.entries[n].cached_at = now
\* The age in whole hours of the entry of n has reached ttl_hours.
Expired(n) ==
  /\ n \in DOMAIN index.entries
  /\ num_hours(now - index.entries[n].cached_at) >= index.ttl_hours

\* C13: store_package(p) followed immediately by get_package(p.name) returns
\* p, whatever TTL the cache was opened with.
C13_AsStated ==
  [][\A n \in CacheNames :
       (GetStep(n) /\ JustStored(n))
         => call'.ret = "Some" /\ call'.value = call.args.package]_vars

\* ------------------------------------------------------------------ C14
\* C14: a cache hit adds one to the entry's access_count and sets its
\* last_accessed to the current time, and leaves its cached_at, its package and
\* every other entry unchanged; so however often an entry was read, a lookup
\* at or after cached_at + ttl_hours is a miss.
C14_HitKeepsCachedAt ==
  [][\A n \in CacheNames :
       GetStep(n)
         => /\ call'.ret = "Some"
                 => index'.entries =
                      [index.entries EXCEPT
                         ![n] = CacheEntry(@.package, @.cached_at, @.access_count + 1, now)]
            /\ (n \in DOMAIN index.entries
                  /\ now >= index.entries[n].cached_at + 2 * index.ttl_hours)
                 => call'.ret = "None"]_vars

\* The second hit on an entry, half an hour after it was stored.
C14_Witness ==
  /\ call.op = "get_package" /\ call.args.name = "a" /\ call.ret = "Some"
  /\ index.entries["a"].access_count = 3
  /\ index.entries["a"].last_accessed = now
  /\ index.entries["a"].cached_at = now - 1

\* ------------------------------------------------------------------ C15
\* The entry map the CacheManager holds, or would load, before a step.
EntriesBefore == IF index.open THEN index.entries ELSE from_str(disk)

\* C15: after every operation that changes the in-memory entry map
\* (store_package, invalidate, clear, a hit or an eviction of get_package, the
\* sweep of new) index.json holds exactly the in-memory entry map.
C15_IndexPersisted ==
  [][(index'.open /\ index'.entries # EntriesBefore)
       => disk' = to_string_pretty(index'.entries)]_vars

\* ------------------------------------------------------------------ C16
\* C16: the install loop attempts every package of the resolved list exactly
\* once and in list order, whatever the outcomes; a failed install_package
\* changes no status, a package whose install returned Ok earlier in the run is
\* still Installed, and once the loop has started the command returns Ok.
C16_FailureIsolation ==
  (result.ok /\ idx > 0)
    => /\ pc \in {"installing", "done"}
       /\ NoDuplicates(result.list)
       /\ Len(attempts) = idx - 1
       /\ \A i \in 1..Len(attempts) : attempts[i].name = result.list[i]
       /\ pc = "done" => Len(attempts) = Len(result.list)
       /\ (last.called /\ last.ret # "Ok") => installed_cache = last.before
       /\ \A i \in 1..Len(attempts) :
            attempts[i].ret = "Ok" => is_installed(installed_cache, attempts[i].name)

\* b was installed, a then failed, and c was still attempted and installed.
C16_Witness ==
  /\ pc = "done" /\ result.list = <<"b", "a", "c">>
  /\ Len(attempts) = 3
  /\ attempts[1].ret = "Ok" /\ attempts[2].ret # "Ok" /\ attempts[3].ret = "Ok"
  /\ installed_cache["b"] = Installed("1", "now")
  /\ installed_cache["a"] = NotInstalled
  /\ installed_cache["c"] = Installed("2", "now")

\* ------------------------------------------------------------------ C17
\* The package of the latest remove_package call.
RemovedPackage == packages[call.args.name]
NoRemovalPath == {"Aur", "Source", "Script", "AppImage"}

\* C17: remove_package takes the removal path of the method for Pacman (the
\* native removal command), Flatpak (the sandbox uninstall command) and Binary
\* (deleting the installed file, when there is one); for every other method it
\* fails with the 'removal not implemented' InstallationFailed error, issues no
\* command and leaves the file system as it was.
C17_RemovalDispatch ==
  /\ [](call.op = "remove_package"
          => LET method == RemovedPackage.installation.method
             IN /\ method = "Pacman"
                     => Len(call.events) = 1 /\ call.events[1].ev = "pacman"
                /\ method = "Flatpak"
                     => Len(call.events) = 1 /\ call.events[1].ev = "flatpak"
                /\ method = "Binary"
                     => \A i \in 1..Len(call.events) : call.events[i].ev = "remove_file"
                /\ (method = "Binary" /\ call.ret = "Ok")
                     => ~fs.files[InstallPath].exists
                /\ method \in NoRemovalPath
                     => /\ call.ret = "InstallationFailed"
                        /\ call.value.message
                             = "Removal not implemented for this installation method"
                        /\ call.events = <<>>)
  /\ [][(call'.op = "remove_package" /\ idx' = idx + 1
           /\ packages[call'.args.name].installation.method \in NoRemovalPath)
          => fs' = fs]_vars

\* A remove command asked for the installed script package and then for the
\* installed binary: the first removal fails as not implemented, the second
\* deletes the file.
C17_Witness ==
  /\ pc = "done" /\ requested = <<"script", "binary">>
  /\ attempts = <<[name |-> "script", ret |-> "InstallationFailed"],
                  [name |-> "binary", ret |-> "Ok"]>>
  /\ call.events = <<Event("remove_file", <<InstallPath>>, "ok")>>
  /\ ~fs.files[InstallPath].exists

\* ------------------------------------------------------------------ C18
\* Every definition of the file passes validate_package.
ValidFile(file) ==
  /\ file.kind \in {"package", "map"}
  /\ \A i \in 1..Len(file.defs) : validate_package(file.defs[i].name, file.defs[i].package)

\* C18: after a directory was loaded, the definitions of each of its valid
\* files are in the Definition Store, whatever the other files are.
C18_OtherFilesLoaded ==
  call.op = "Manager::new"
    => \A i \in 1..Len(call.args.files) :
         ValidFile(call.args.files[i])
           => \A j \in 1..Len(call.args.files[i].defs) :
                call.args.files[i].defs[j].name \in DOMAIN packages

\* ------------------------------------------------------------------ C19
\* The positions of the candidate names `pacman -Q` reports installed.
Hits(cands, db) == {i \in 1..Len(cands) : db[cands[i]].spawned /\ db[cands[i]].success}
Min(S) == CHOOSE i \in S : \A j \in S : i <= j

\* C19: after a refresh every definition has a status entry: for a Pacman
\* definition Installed with the version reported for the first candidate name
\* that `pacman -Q` reports installed and installed_at "unknown", the names
\* behind that one not being probed, and NotInstalled when no candidate is
\* reported installed; for every other method NotInstalled, without a probe.
C19_RefreshStatus ==
  (call.op = "Manager::new" /\ call.ret = "Ok")
    => /\ DOMAIN installed_cache = DOMAIN packages
       /\ \A n \in DOMAIN packages :
            LET cands == packages[n].installation.packages
                db == call.args.db
                hits == Hits(cands, db)
                probes == call.value.probes[n]
            IN IF packages[n].installation.method # "Pacman"
               THEN installed_cache[n] = NotInstalled /\ probes = <<>>
               ELSE IF hits = {}
               THEN installed_cache[n] = NotInstalled /\ probes = cands
               ELSE /\ installed_cache[n].state = "Installed"
                    /\ installed_cache[n].version = db[cands[Min(hits)]].stdout[2]
                    /\ installed_cache[n].installed_at = "unknown"
                    /\ probes = SubSeq(cands, 1, Min(hits))

\* Both candidates of a are installed, with different versions: the first is
\* reported and the second is not probed; c is not handled by the native
\* manager.
C19_Witness ==
  /\ call.op = "Manager::new" /\ call.ret = "Ok"
  /\ DOMAIN packages = {"a", "c"}
  /\ call.args.db = [n \in {"pa", "pb"} |-> IF n = "pa" THEN Found("1") ELSE Found("2")]
  /\ installed_cache["a"] = Installed("1", "unknown")
  /\ call.value.probes["a"] = <<"pa">>
  /\ packages["c"].installation.method = "Flatpak"
  /\ installed_cache["c"] = NotInstalled

\* ------------------------------------------------------------------ C20
\* A probe of the refresh could not be run.
ProbeFailed(n) ==
  /\ n \in DOMAIN call.value.probes
  /\ \E i \in 1..Len(call.value.probes[n]) : ~call.args.db[call.value.probes[n][i]].spawned

\* C20: a package whose tracked installed version differs from its
\* definition's version has the status UpdateAvailable, and a package whose
\* probe fails during a refresh has the status Error after that refresh, which
\* completes for the other packages.
C20_StatusMachine ==
  /\ \A n \in DOMAIN installed_cache \cap DOMAIN packages :
       /\ installed_cache[n].state \in InstallStates
       /\ (installed_cache[n].state # "NotInstalled"
             /\ installed_cache[n].version # packages[n].version)
            => installed_cache[n].state = "UpdateAvailable"
  /\ call.op = "Manager::new"
       => \A n \in DOMAIN call.value.probes :
            ProbeFailed(n)
              => /\ pc = "ready"
                 /\ DOMAIN installed_cache = DOMAIN packages
                 /\ n \in DOMAIN installed_cache
                 /\ installed_cache[n].state = "Error"

\* ------------------------------------------------------------------ C21
RECURSIVE PostOrder(_, _)
RECURSIVE PostOrderDeps(_, _, _)
\* The post-order of the depth-first walk from n along the non-optional
\* Package-kind entries of each dependency list, in list order, with every
\* occurrence kept (defined where the walk meets no cycle).
PostOrder(pk, n) == PostOrderDeps(pk, pk[n].dependencies, 1) \o <<n>>
PostOrderDeps(pk, deps, i) ==
  IF i > Len(deps) THEN <<>>
  ELSE IF ~deps[i].optional /\ deps[i].dep_type = "Package"
  THEN PostOrder(pk, deps[i].name) \o PostOrderDeps(pk, deps, i + 1)
  ELSE PostOrderDeps(pk, deps, i + 1)

RECURSIVE PostOrderAll(_, _, _)
\* The walks from the requested names, one after the other.
PostOrderAll(pk, names, i) ==
  IF i > Len(names) THEN <<>>
  ELSE PostOrder(pk, names[i]) \o PostOrderAll(pk, names, i + 1)

RECURSIVE FirstOccurrences(_)
\* s with only the first occurrence of each element kept.
FirstOccurrences(s) ==
  IF s = <<>> THEN <<>>
  ELSE LET front == FirstOccurrences(SubSeq(s, 1, Len(s) - 1))
       IN IF s[Len(s)] \in SeqToSet(front) THEN front ELSE Append(front, s[Len(s)])

\* The position of x in a list that holds it.
IndexOf(list, x) == CHOOSE i \in 1..Len(list) : list[i] = x

\* C21: a successful resolve_packages returns the post-order of the
\* depth-first walk from the requested names in request order, each
\* dependency list walked in definition order, first occurrence kept (a
\* function of the definition set and the request alone); so a requested name
\* comes before every later requested name that is not one of its own
\* dependencies, and the dependencies of the first requested package come
\* before every later entry of its dependency list that none of them depends
\* on.
C21_DefinitionOrder ==
  (Resolved /\ result.ok)
    => /\ result.list = FirstOccurrences(PostOrderAll(packages, requested, 1))
       /\ \A i, j \in 1..Len(requested) :
            (i < j /\ requested[j] \notin Closure(packages, {requested[i]}))
              => IndexOf(result.list, requested[i]) < IndexOf(result.list, requested[j])
       /\ requested # <<>> =>
            LET deps == packages[requested[1]].dependencies
                walked(k) == ~deps[k].optional /\ deps[k].dep_type = "Package"
            IN \A j \in 1..Len(deps) :
                 (walked(j) /\ \A k \in 1..(j - 1) :
                                 walked(k) => deps[j].name \notin Closure(packages, {deps[k].name}))
                   => \A i \in 1..(j - 1) :
                        walked(i) => IndexOf(result.list, deps[i].name)
                                       < IndexOf(result.list, deps[j].name)

\* a lists c and then b, two independent packages: resolve([a]) is [c, b, a];
\* and resolve([b, a]) for an a that needs only c is [b, c, a].
C21_Witness ==
  /\ Resolved
  /\ \/ /\ requested = <<"a">>
        /\ Len(packages["a"].dependencies) = 2
        /\ packages["a"].dependencies[1] = Dependency("c", FALSE, "Package")
        /\ packages["a"].dependencies[2] = Dependency("b", FALSE, "Package")
        /\ MandatoryDeps(packages, "b") = {}
        /\ result = Ok(<<"c", "b", "a">>)
     \/ /\ requested = <<"b", "a">>
        /\ MandatoryDeps(packages, "a") = {"c"}
        /\ MandatoryDeps(packages, "b") = {}
        /\ result = Ok(<<"b", "c", "a">>)

\* ------------------------------------------------------------------ C22
\* A definition set with only the non-optional Package-kind entries of every
\* dependency list kept.
RECURSIVE MandatoryOnly(_)
MandatoryOnly(deps) ==
  IF deps = <<>> THEN <<>>
  ELSE LET rest == MandatoryOnly(Tail(deps))
       IN IF ~Head(deps).optional /\ Head(deps).dep_type = "Package"
          THEN <<Head(deps)>> \o rest ELSE rest
Stripped(pk) == [n \in DOMAIN pk |-> [pk[n] EXCEPT !.dependencies = MandatoryOnly(@)]]

\* The names that only optional or non-Package-kind entries of a defined
\* package mention.
OtherDeps(pk, n) ==
  IF n \notin DOMAIN pk THEN {}
  ELSE {d.name : d \in {e \in SeqToSet(pk[n].dependencies) :
                          e.optional \/ e.dep_type # "Package"}}

\* C22: resolve_packages returns what it returns for the definition set with
\* every optional and every System, Runtime or Build entry deleted; a
\* PackageNotFound names a requested name or one reached through non-optional
\* Package-kind entries, a Dependency error names a package on a cycle of such
\* entries, and a successful result holds exactly the names reached through
\* them.
C22_OnlyMandatoryPackageDeps ==
  Resolved
    => /\ result = resolve_packages(Stripped(packages), requested)
       /\ (~result.ok /\ result.err.kind = "PackageNotFound")
            => result.err.name \in Missing(packages, requested)
       /\ (~result.ok /\ result.err.kind = "Dependency")
            => OnCycle(packages, result.err.name)
       /\ result.ok => SeqToSet(result.list) = Reachable(packages, requested)

\* a lists the undefined c and itself, through Runtime, Build, System or
\* optional entries only: resolve([a]) is [a].
C22_Witness ==
  /\ Resolved
  /\ "c" \notin DOMAIN packages
  /\ {"a", "c"} \subseteq OtherDeps(packages, "a")
  /\ \E d \in SeqToSet(packages["a"].dependencies) : d.dep_type \in {"Runtime", "Build"}
  /\ MandatoryDeps(packages, "a") = {}
  /\ requested = <<"a">>
  /\ result = Ok(<<"a">>)

\* ------------------------------------------------------------------ C23
\* The step of install_package an external command belongs to: 1 the
\* system-dependency batch, 2 the strategy, 3 the post-install block.
StepOf(event) ==
  CASE event.ev = "system_dependencies" -> 1
    [] event.ev = "strategy" -> 2
    [] OTHER -> 3

\* C23: the external commands of one install_package run are issued one after
\* the other, each after the one before it has returned, in the order
\* system-dependency batch, strategy, post-install actions; the strategy is
\* dispatched only after the batch succeeded, a post-install action runs only
\* after the strategy returned success, and the status map is changed only by
\* a run whose strategy and post-install block have returned.
C23_StepOrder ==
  last.called
    => LET ev == last.events
           n == Len(ev)
       IN /\ \A i, j \in 1..n : i < j => StepOf(ev[i]) <= StepOf(ev[j])
          /\ Len(EventsOf(ev, {"system_dependencies"})) <= 1
          /\ Len(EventsOf(ev, {"strategy"})) <= 1
          /\ \A i \in 1..(n - 1) : ev[i].out \in {"ok", "nonzero"}
          /\ \A j \in 1..n :
               StepOf(ev[j]) = 2 => \A i \in 1..(j - 1) : ev[i].out = "ok"
          /\ \A j \in 1..n :
               StepOf(ev[j]) = 3
                 => \E i \in 1..(j - 1) : ev[i].ev = "strategy" /\ ev[i].out = "ok"
          /\ installed_cache # last.before
               => /\ last.ret = "Ok"
                  /\ \E i \in 1..n : ev[i].ev = "strategy" /\ ev[i].out = "ok"
                  /\ Len(EventsOf(ev, PostKinds))
                       = Len(PostActions(LastPackage.post_install))
                  /\ ev[n].out # "error"
                  /\ installed_cache
                       = StatusRecorded(last.before, last.name, LastPackage)

\* A run of a, not Installed before: the batch, the strategy, the five
\* post-install actions (one of them exiting non-zero), then the status.
C23_Witness ==
  /\ last.called /\ last.name = "a" /\ ~WasInstalled
  /\ Len(last.events) = 7
  /\ [i \in 1..7 |-> last.events[i].ev]
       = <<"system_dependencies", "strategy", "command", "config_file",
           "service", "group", "environment">>
  /\ last.events[5].out = "nonzero"
  /\ installed_cache["a"] = Installed("1", "now")

\* ------------------------------------------------------------------ C24
\* The latest operation is an install_source call.
SourceCall == call.op = "install_source"
\* The shell commands it ran, and the ones of its definition, as (step,
\* command) pairs in order.
RanCommands == EventsOf(call.events, {"build", "install"})
Steps(events) == [i \in 1..Len(events) |-> <<events[i].ev, events[i].arg[1]>>]
PlannedSteps ==
  [i \in 1..Len(call.args.build_commands) |-> <<"build", call.args.build_commands[i]>>]
    \o [i \in 1..Len(call.args.install_commands) |->
          <<"install", call.args.install_commands[i]>>]
IsPrefix(s, t) == Len(s) <= Len(t) /\ s = SubSeq(t, 1, Len(s))

\* The commands run are the build commands in list order and then the install
\* commands in list order, up to and including the first one that does not
\* exit with success; a command that exits non-zero ends the install with
\* InstallationFailed; without such a command, after a successful clone, all
\* commands are run and the install succeeds.
SourceCommandsInOrder ==
  /\ IsPrefix(Steps(RanCommands), PlannedSteps)
  /\ \A i \in 1..(Len(RanCommands) - 1) : RanCommands[i].out = "ok"
  /\ (\E i \in 1..Len(RanCommands) : RanCommands[i].out = "nonzero")
       => call.ret = "InstallationFailed"
  /\ RanCommands # <<>>
       => /\ is_git_url(call.args.url)
          /\ call.events[1] = Event("git_clone", call.args.url, "ok")
  /\ (call.events # <<>> /\ \A i \in 1..Len(call.events) : call.events[i].out = "ok"
         /\ is_git_url(call.args.url))
       => Len(RanCommands) = Len(PlannedSteps) /\ call.ret = "Ok"

\* C24 as stated: the above, and for a URL that is not recognised as a
\* version-control remote the install fails with InstallationFailed and runs no
\* build or install command.
C24_AsStated ==
  SourceCall
    => /\ SourceCommandsInOrder
       /\ ~is_git_url(call.args.url)
            => call.ret = "InstallationFailed" /\ RanCommands = <<>>

\* C24 (amended): the above, and for a URL that is not recognised as a
\* version-control remote the install always fails and runs no build or install
\* command: with InstallationFailed once the archive has been downloaded, with
\* the Network error when the download fails, with the io::Error when the
\* working directory could not be created.
C24_SourceCommands ==
  SourceCall
    => /\ SourceCommandsInOrder
       /\ ~is_git_url(call.args.url)
            => /\ RanCommands = <<>>
               /\ call.ret \in {"InstallationFailed", "Network", "Io"}
               /\ call.ret = "InstallationFailed"
                    <=> call.events = <<Event("download", call.args.url, "ok")>>
               /\ call.ret = "Network"
                    <=> (call.events # <<>> /\ call.events[1].out # "ok")
               /\ call.ret = "Io" <=> call.events = <<>>

\* The second of two build commands exits non-zero: no install command runs.
C24_Witness ==
  /\ SourceCall
  /\ Len(call.args.build_commands) = 2 /\ Len(call.args.install_commands) = 2
  /\ Len(call.events) = 3
  /\ call.events[1].ev = "git_clone" /\ call.events[1].out = "ok"
  /\ call.events[2] = Event("build", <<call.args.build_commands[1]>>, "ok")
  /\ call.events[3] = Event("build", <<call.args.build_commands[2]>>, "nonzero")
  /\ call.ret = "InstallationFailed"

\* ------------------------------------------------------------------ C25
\* The step is a CacheManager::new that returned a manager.
OpenStep == ~index.open /\ index'.open

\* C25: right after CacheManager::new returned, the index holds no entry whose
\* age in whole hours is ttl_hours or more, it still holds every entry of the
\* loaded index file whose age is below ttl_hours, and an index file that cannot
\* be parsed was loaded as an empty index, without an error.
C25_SweepOnOpen ==
  [][OpenStep
       => /\ call'.ret = "Ok"
          /\ \A n \in DOMAIN index'.entries :
               num_hours(now - index'.entries[n].cached_at) < index'.ttl_hours
          /\ disk.state = "index"
               => \A n \in DOMAIN disk.entries :
                    num_hours(now - disk.entries[n].cached_at) < index'.ttl_hours
                      => /\ n \in DOMAIN index'.entries
                         /\ index'.entries[n] = disk.entries[n]
          /\ disk = Corrupt => index'.entries = NoEntries]_vars

\* ------------------------------------------------------------------ C26
\* The latest install_package call returned an error.
InstallFailed == last.called /\ last.ret # "Ok"
\* The step the failing command of that call belongs to.
FailedStep == StepOf(last.events[Len(last.events)])

\* C26: an install_package call that returns an error, whichever step failed,
\* leaves the status map as it found it: a package that was Installed keeps
\* that status with the version it had, also under force, and one that was
\* NotInstalled stays NotInstalled.
C26_FailureKeepsStatus ==
  InstallFailed
    => /\ installed_cache = last.before
       /\ last.events # <<>>
       /\ last.events[Len(last.events)].out # "ok"
       /\ WasInstalled
            => /\ last.force
               /\ installed_cache[last.name].state = "Installed"
               /\ installed_cache[last.name].version = last.before[last.name].version
       /\ last.before[last.name] = NotInstalled
            => installed_cache[last.name] = NotInstalled

\* A forced install of a, Installed with another version than the
\* definition's, fails in its post-install block: the old version stays.
C26_Witness ==
  /\ InstallFailed /\ last.name = "a" /\ last.force
  /\ FailedStep = 3
  /\ last.before["a"] = Installed("2", "unknown")
  /\ installed_cache["a"] = Installed("2", "unknown")

\* ------------------------------------------------------------------ C27
\* The latest removal of the session removed its package.
Removed == call.op = "remove_package" /\ call.ret = "Ok"

\* C27: no step of the remove command changes the status map (only a
\* successful install_package does); a package the command removed is still
\* Installed, for is_installed too, in every later state of the session, and
\* an unforced install_package of it returns success without running a step;
\* the packages remove_package is called for are requested names whose status
\* is Installed and that the Definition Store holds.
C27_RemovalKeepsStatus ==
  /\ [](Removed
          => /\ installed_cache[call.args.name].state = "Installed"
             /\ is_installed(installed_cache, call.args.name))
  /\ [](call.op = "remove_package"
          => /\ call.args.name \in DOMAIN packages
             /\ is_installed(installed_cache, call.args.name))
  /\ []((Removed /\ last.called /\ ~last.force /\ last.name = call.args.name)
          => /\ last.ret = "Ok" /\ last.events = <<>>
             /\ installed_cache = last.before)
  /\ []((pc = "removing")
          => /\ SeqToSet(result.list) \subseteq SeqToSet(requested) \cap DOMAIN packages
             /\ \A n \in SeqToSet(result.list) : is_installed(installed_cache, n))
  /\ [][installed_cache' # installed_cache
         => pc = "installing" /\ last'.called /\ last'.ret = "Ok"]_vars

\* The binary was removed (its file is gone), and the unforced install that
\* followed was skipped as already installed.
C27_Witness ==
  /\ Removed /\ call.args.name = "binary"
  /\ ~fs.files[InstallPath].exists
  /\ call.events = <<Event("remove_file", <<InstallPath>>, "ok")>>
  /\ last.called /\ last.name = "binary" /\ ~last.force
  /\ last.ret = "Ok" /\ last.events = <<>>
  /\ is_installed(installed_cache, "binary")

\* ------------------------------------------------------------------ C28
\* The step is a store_package of a package named n.
StoreStep(n) ==
  call'.op = "store_package" /\ call'.args.package.name = n /\ now' = now

\* C28: store_package(p) leaves under p.name the one entry (p, cached_at = now,
\* access_count = 1, last_accessed = now), whether or not the name was cached
\* before, and leaves every other entry as it was; every entry is kept under
\* the name of its package; and the cached_at of an entry, in the index as in
\* the index file, only ever changes in a store_package of its name.
C28_StoreReplaces ==
  /\ [](index.open => \A n \in DOMAIN index.entries : index.entries[n].package.name = n)
  /\ [][\A n \in CacheNames :
          StoreStep(n)
            => /\ DOMAIN index'.entries = DOMAIN index.entries \cup {n}
               /\ index'.entries[n] = CacheEntry(call'.args.package, now, 1, now)
               /\ \A m \in DOMAIN index.entries \ {n} :
                    index'.entries[m] = index.entries[m]]_vars
  /\ [][\A n \in CacheNames :
          (\/ /\ n \in DOMAIN index.entries /\ n \in DOMAIN index'.entries
              /\ index'.entries[n].cached_at # index.entries[n].cached_at
           \/ /\ n \in DOMAIN disk.entries /\ n \in DOMAIN disk'.entries
              /\ disk'.entries[n].cached_at # disk.entries[n].cached_at)
            => StoreStep(n)]_vars

\* a was stored again, half an hour or more after b, over an entry of a.
C28_Witness ==
  /\ call.op = "store_package" /\ call.value.replaced
  /\ call.args.package = CachedPackage("a", "2")
  /\ now >= 1
  /\ index.entries["a"] = CacheEntry(CachedPackage("a", "2"), now, 1, now)
  /\ "b" \in DOMAIN index.entries /\ index.entries["b"].cached_at < now
  /\ index.entries["b"].access_count > 1

\* ------------------------------------------------------------------ C29
\* C29: in a cache opened with ttl_hours = 0, a get_package of a name the index
\* holds, be it right after its store_package, returns absent and removes the
\* entry, so that no lookup ever returns a package; and right after
\* CacheManager::new returned the index is empty, whatever the loaded index
\* file held.
C29_ZeroTtl ==
  /\ []((index.open /\ index.ttl_hours = 0 /\ call.op = "get_package")
          => call.ret = "None")
  /\ [][\A n \in CacheNames :
          (GetStep(n) /\ index.ttl_hours = 0 /\ n \in DOMAIN index.entries)
            => /\ call'.ret = "None"
               /\ call'.events = <<"expired", "miss">>
               /\ index'.entries = remove(index.entries, n)]_vars
  /\ [][(OpenStep /\ index'.ttl_hours = 0) => index'.entries = NoEntries]_vars

\* With ttl_hours = 0, the lookup of a at the instant it was stored evicted it;
\* the index file still has the entry.
C29_Witness ==
  /\ index.open /\ index.ttl_hours = 0
  /\ call.op = "get_package" /\ call.args.name = "a"
  /\ call.events = <<"expired", "miss">>
  /\ "a" \notin DOMAIN index.entries
  /\ disk.state = "index" /\ "a" \in DOMAIN disk.entries
  /\ disk.entries["a"].cached_at = now

\* ------------------------------------------------------------------ C30
\* The step is a load_definition_file on the loader of the running App.
LoadStep == pc = "ready" /\ pc' = "ready" /\ call'.op = "load_definition_file"

\* C30: a load_definition_file that returns an error leaves the Definition
\* Store holding exactly the definitions it held; one that succeeds leaves
\* every definition of the file in the store under its name, and every other
\* definition as it was.
C30_LoadAtomic ==
  [][LoadStep
       => LET defs == call'.args.file.defs
              names == {defs[i].name : i \in 1..Len(defs)}
          IN IF call'.ret # "Ok" THEN packages' = packages
             ELSE /\ DOMAIN packages' = DOMAIN packages \cup names
                  /\ \A i \in 1..Len(defs) : packages'[defs[i].name] = defs[i].package
                  /\ \A n \in DOMAIN packages \ names : packages'[n] = packages[n]]_vars

====
